---- MODULE Spec2Model ----
(***************************************************************************)
(* Verification model of charmer's SFTP connection manager                 *)
(* (pkg/charmer/sftp/manager.go), of the SFTP primitive operations that    *)
(* borrow its sessions (pkg/charmer/path/operations/sftp) and of the Path  *)
(* facade (pkg/charmer/path/pathlib.go) with its local-to-local transfer   *)
(* routines (pkg/charmer/path/operations/locallocal).                      *)
(*                                                                         *)
(* Time is counted in seconds and kept relative: a clientInfo carries the  *)
(* time elapsed since its lastUsed stamp (saturating just above            *)
(* MaxIdleTime, beyond which the code cannot tell two values apart) and a  *)
(* sleeping caller the time left of its time.Sleep; Tick lets one second   *)
(* pass for all of them.  Every critical section of the manager            *)
(* (one RLock/RUnlock or Lock/Unlock pair) is one atomic action; the       *)
(* network calls made outside the lock (Getwd probe, ssh.Dial) are actions *)
(* of their own, so that goroutines interleave exactly where the code      *)
(* lets them.                                                              *)
(***************************************************************************)
EXTENDS Integers, Sequences, FiniteSets, TLC

\* ---------------------------------------------------------------- bounds
MaxSessions == 2          \* connections ever dialled in one behaviour

Procs == {"p1", "p2"}     \* goroutines calling into the manager
Keys  == {"k1", "k2"}     \* distinct user@host:port strings

\* ------------------------------------------------------ program constants
DefaultMaxIdleTime       == 300
DefaultMaxRetries        == 3
DefaultRetryDelay        == 1
DefaultKeepAliveInterval == 30
DefaultMaxConnections    == 10

\* ------------------------------------------------------------------ state
VARIABLES
    config,      \* Manager.config after NewManager's defaulting
    clients,     \* Manager.clients: key -> clientInfo, NoInfo when absent;
                 \* idle = time.Now() - lastUsed
    sessions,    \* every connection ever dialled (client + sshClient), by id
    done,        \* Manager.done is closed
    closePc,     \* position of the Close() call: "none", "locking", "returned"
    cleanupPc,   \* the cleanup goroutine: "running" or "stopped"
    pc,          \* per caller: position inside GetClient / the operation
    det,         \* per caller: the ConnectionDetails after applyDefaults
    info,        \* per caller: the local info / client pointer (session id)
    infoUsed,    \* per caller: time since lastUsed of the clientInfo not yet stored
    attempt,     \* per caller: the retry loop counter
    sleepLeft,   \* per caller: time left of the current time.Sleep
    ctxDone,     \* per caller: ctx.Done() is closed
    probed,      \* per caller: the session whose Getwd probe failed in this call
    dials,       \* per caller: createNewClient calls made by this call
    res,         \* per caller: what the last GetClient call returned
    goos,        \* runtime.GOOS
    src,         \* the Path an operation is called on
    dst,         \* the dest Path handed to CopyTo / MoveTo
    backend,     \* what the backends hold and answer
    pathCall,    \* the last Path operation called
    pathRes,     \* its error and the backends it accessed
    disk,        \* the local file system: what src, dest and dest + ".tmp" hold
    xf           \* the local-to-local Move / Copy call in progress

mgrVars  == <<config, clients, sessions, done, closePc, cleanupPc>>
procVars == <<pc, det, info, infoUsed, attempt, sleepLeft, ctxDone, probed,
              dials, res>>
pathVars == <<goos, src, dst, backend, pathCall, pathRes>>
fsVars   == <<disk, xf>>
vars     == <<config, clients, sessions, done, closePc, cleanupPc,
              pc, det, info, infoUsed, attempt, sleepLeft, ctxDone, probed,
              dials, res, goos, src, dst, backend, pathCall, pathRes, disk, xf>>

\* ------------------------------------------------------------ input sets
\* the password the server accepts for the account of every key
ServerPassword == "secret"

\* ManagerConfig values handed to NewManager (0 = field left unset).
ConfigInputs ==
    { [MaxIdleTime |-> 1, MaxConnections |-> 1],
      [MaxIdleTime |-> 1, MaxConnections |-> 0] }

\* ConnectionDetails handed to GetClient (0 = field left unset): for the
\* keys K, with MaxRetries drawn from R.
DetailsInputs(K, R) ==
    [ key : K, MaxRetries : R, RetryDelay : {0}, KeepAliveInterval : {0},
      Password : {ServerPassword} ]

\* ConnectionDetails of callers that know the password of the account, and of
\* callers that do not
PasswordInputs(K, R) ==
    [ key : K, MaxRetries : R, RetryDelay : {0}, KeepAliveInterval : {0},
      Password : {ServerPassword, "guess"} ]

NoDetails == [key |-> "", MaxRetries |-> 0, RetryDelay |-> 0,
              KeepAliveInterval |-> 0, Password |-> ""]
NoInfo    == [id |-> 0, idle |-> 0]

\* --------------------------------------------------------------- helpers
\* NewManager: the defaulting of the configuration
NewManagerConfig(c) ==
    [ MaxIdleTime    |-> IF c.MaxIdleTime = 0 THEN DefaultMaxIdleTime
                         ELSE c.MaxIdleTime,
      MaxConnections |-> IF c.MaxConnections = 0 THEN DefaultMaxConnections
                         ELSE c.MaxConnections ]

\* ConnectionDetails.applyDefaults
applyDefaults(d) ==
    [ d EXCEPT
        !.MaxRetries = IF d.MaxRetries = 0 THEN DefaultMaxRetries ELSE @,
        !.RetryDelay = IF d.RetryDelay = 0 THEN DefaultRetryDelay ELSE @,
        !.KeepAliveInterval =
            IF d.KeepAliveInterval = 0 THEN DefaultKeepAliveInterval ELSE @ ]

Ids == 1..Len(sessions)

\* the keys of the map m.clients
PoolKeys == { k \in Keys : clients[k].id # 0 }

\* the sessions the map holds
Pooled == { clients[k].id : k \in PoolKeys }

\* len(m.clients)
PoolLen == Cardinality(PoolKeys)

\* sftp.Client.Getwd on a pooled client: a round trip over the connection
GetwdOk(s) ==
    sessions[s].sftpOpen /\ sessions[s].sshOpen /\ sessions[s].alive

\* ssh.Client.SendRequest("keepalive@openssh.com")
SendRequestOk(s) == sessions[s].sshOpen /\ sessions[s].alive

\* info.client.Close(); info.sshClient.Close() as the manager does it
ManagerClosed(s, who) ==
    [ s EXCEPT !.sftpOpen = FALSE, !.sshOpen = FALSE, !.alive = FALSE,
               !.closedBy = IF @ = "none" THEN who ELSE @ ]

\* --------------------------------------------------------- initial state
\* NewManager(c): an empty pool, the cleanup goroutine started
MgrInit(c) ==
    /\ config = NewManagerConfig(c)
    /\ clients = [k \in Keys |-> NoInfo]
    /\ sessions = << >>
    /\ done = FALSE
    /\ closePc = "none"
    /\ cleanupPc = "running"
    /\ pc = [p \in Procs |-> "idle"]
    /\ det = [p \in Procs |-> NoDetails]
    /\ info = [p \in Procs |-> 0]
    /\ infoUsed = [p \in Procs |-> 0]
    /\ attempt = [p \in Procs |-> 0]
    /\ sleepLeft = [p \in Procs |-> 0]
    /\ ctxDone = [p \in Procs |-> FALSE]
    /\ probed = [p \in Procs |-> 0]
    /\ dials = [p \in Procs |-> 0]
    /\ res = [p \in Procs |-> "none"]

\* ============================================================ Path facade
\* Strings are sequences of one-character strings.
S_slash == <<"/">>
S_http  == <<"h", "t", "t", "p", ":", "/", "/">>
S_https == <<"h", "t", "t", "p", "s", ":", "/", "/">>
S_sftp  == <<"s", "f", "t", "p", ":", "/", "/">>
S_dot   == <<".">>

LowerSeq == <<"a", "b", "c", "d", "e", "f", "g", "h", "i", "j", "k", "l", "m",
              "n", "o", "p", "q", "r", "s", "t", "u", "v", "w", "x", "y", "z">>
UpperSeq == <<"A", "B", "C", "D", "E", "F", "G", "H", "I", "J", "K", "L", "M",
              "N", "O", "P", "Q", "R", "S", "T", "U", "V", "W", "X", "Y", "Z">>
DigitSeq == <<"0", "1", "2", "3", "4", "5", "6", "7", "8", "9">>

Range(f) == { f[i] : i \in DOMAIN f }

\* unicode.IsLetter / unicode.IsDigit on the model's alphabet
IsLetter(c) == c \in Range(LowerSeq) \cup Range(UpperSeq)
IsDigit(c)  == c \in Range(DigitSeq)

\* the characters below 32 other than tab ("NUL" stands for the byte 0)
ControlChars == {"NUL", "\n", "\r"}

\* unicode.IsPrint on the model's alphabet
IsPrint(c) == c \notin ControlChars \cup {"\t"}

\* strings.HasPrefix / strings.HasSuffix / strings.TrimPrefix
HasPrefix(str, pre) ==
    Len(str) >= Len(pre) /\ SubSeq(str, 1, Len(pre)) = pre
HasSuffix(str, suf) ==
    Len(str) >= Len(suf) /\ SubSeq(str, Len(str) - Len(suf) + 1, Len(str)) = suf
TrimPrefix(str, pre) ==
    IF HasPrefix(str, pre) THEN SubSeq(str, Len(pre) + 1, Len(str)) ELSE str

\* strings.Split(str, c) for a one-character separator
RECURSIVE Split(_, _)
Split(str, c) ==
    IF \A i \in 1..Len(str) : str[i] # c
      THEN <<str>>
      ELSE LET i == CHOOSE j \in 1..Len(str) :
                      str[j] = c /\ \A h \in 1..(j - 1) : str[h] # c
           IN  <<SubSeq(str, 1, i - 1)>> \o Split(SubSeq(str, i + 1, Len(str)), c)

\* strings.ToUpper
ToUpper(str) ==
    [i \in 1..Len(str) |->
       IF \E j \in 1..26 : LowerSeq[j] = str[i]
         THEN UpperSeq[CHOOSE j \in 1..26 : LowerSeq[j] = str[i]]
         ELSE str[i]]

\* strconv.Atoi on unsigned decimal strings: does it succeed, and its value
AtoiOk(str) == str # << >> /\ \A i \in 1..Len(str) : IsDigit(str[i])
RECURSIVE AtoiVal(_)
AtoiVal(str) ==
    IF str = << >> THEN 0
    ELSE AtoiVal(SubSeq(str, 1, Len(str) - 1)) * 10
         + ((CHOOSE n \in 1..10 : DigitSeq[n] = str[Len(str)]) - 1)

\* strings.Join(segs, "/")
RECURSIVE JoinSlash(_)
JoinSlash(segs) ==
    IF segs = << >> THEN << >>
    ELSE IF Len(segs) = 1 THEN segs[1]
    ELSE segs[1] \o S_slash \o JoinSlash(Tail(segs))

\* filepath.Clean (Unix): the stack of segments left after ".", "" and ".."
RECURSIVE CleanSegs(_, _, _)
CleanSegs(segs, out, rooted) ==
    IF segs = << >> THEN out
    ELSE LET seg == Head(segs) IN
         IF seg = << >> \/ seg = S_dot
           THEN CleanSegs(Tail(segs), out, rooted)
         ELSE IF seg = <<".", ".">>
           THEN IF out # << >> /\ out[Len(out)] # <<".", ".">>
                  THEN CleanSegs(Tail(segs), SubSeq(out, 1, Len(out) - 1), rooted)
                ELSE IF rooted
                  THEN CleanSegs(Tail(segs), out, rooted)
                ELSE CleanSegs(Tail(segs), Append(out, seg), rooted)
         ELSE CleanSegs(Tail(segs), Append(out, seg), rooted)

\* filepath.Clean (Unix)
Clean(str) ==
    IF str = << >> THEN S_dot
    ELSE LET rooted == str[1] = "/"
             body   == JoinSlash(CleanSegs(Split(str, "/"), << >>, rooted))
             out    == IF rooted THEN S_slash \o body ELSE body
         IN  IF out = << >> THEN S_dot ELSE out

MaxPathLength == 4096

\* isValidHostnameLabel
isValidHostnameLabel(label) ==
    /\ Len(label) # 0
    /\ \A i \in 1..Len(label) :
         IF i = 1 THEN IsLetter(label[i])
         ELSE IF i = Len(label) THEN IsLetter(label[i]) \/ IsDigit(label[i])
         ELSE IsLetter(label[i]) \/ IsDigit(label[i]) \/ label[i] = "-"

\* the reserved Windows names of Validate
ReservedNames ==
    { <<"C", "O", "N">>, <<"P", "R", "N">>, <<"A", "U", "X">>, <<"N", "U", "L">> }
    \cup { <<"C", "O", "M", DigitSeq[n]>> : n \in 2..10 }
    \cup { <<"L", "P", "T", DigitSeq[n]>> : n \in 2..10 }

\* Validate, the Windows-specific block
WindowsError(p) ==
    IF \E i \in 1..Len(p.path) : p.path[i] \in {"<", ">", ":", "\"", "|", "?", "*"}
      THEN "invalid character for Windows"
    ELSE IF \E seg \in Range(Split(p.path, "/")) : \E name \in ReservedNames :
              ToUpper(seg) = name \/ HasPrefix(ToUpper(seg), name \o S_dot)
      THEN "reserved Windows name"
    ELSE ""

\* Validate, the check of one path segment
SegmentError(seg, n) ==
    IF seg = << >> /\ n > 1 THEN "empty segment"
    ELSE IF seg = S_dot \/ seg = <<".", ".">> THEN "dot segment"
    ELSE IF HasSuffix(seg, <<" ">>) \/ HasSuffix(seg, S_dot)
      THEN "segment ends with space or period"
    ELSE ""

\* Validate, the loop over the path segments
SegmentsError(p) ==
    LET segs == Split(TrimPrefix(TrimPrefix(TrimPrefix(p.path, S_http), S_https),
                                 S_slash), "/")
        bad  == { i \in 1..Len(segs) : SegmentError(segs[i], Len(segs)) # "" }
    IN  IF bad = {} THEN ""
        ELSE SegmentError(segs[CHOOSE i \in bad : \A j \in bad : i <= j], Len(segs))

\* Validate, the check of one hostname label
LabelError(label) ==
    IF Len(label) > 63 THEN "SFTP hostname label too long"
    ELSE IF ~isValidHostnameLabel(label) THEN "invalid SFTP hostname label"
    ELSE ""

\* Validate, the loop over the hostname labels
LabelsError(p) ==
    LET labels == Split(p.host, ".")
        bad    == { i \in 1..Len(labels) : LabelError(labels[i]) # "" }
    IN  IF bad = {} THEN ""
        ELSE LabelError(labels[CHOOSE i \in bad : \A j \in bad : i <= j])

\* Validate, the SFTP-specific block
SftpError(p) ==
    IF p.host = << >> THEN "SFTP path missing host"
    ELSE IF Len(p.host) > 255 THEN "SFTP hostname too long"
    ELSE IF LabelsError(p) # "" THEN LabelsError(p)
    ELSE IF p.port # << >> /\ ~AtoiOk(p.port) THEN "invalid SFTP port number"
    ELSE IF p.port # << >> /\ (AtoiVal(p.port) < 1 \/ AtoiVal(p.port) > 65535)
      THEN "SFTP port number out of range"
    ELSE IF p.username # << >> /\ Len(p.username) > 255
      THEN "SFTP username too long"
    ELSE IF \E i \in 1..Len(p.username) : ~IsPrint(p.username[i])
      THEN "SFTP username contains non-printable characters"
    ELSE IF p.password # << >> /\ Len(p.password) > 255
      THEN "SFTP password too long"
    ELSE IF \E i \in 1..Len(p.password) : ~IsPrint(p.password[i])
      THEN "SFTP password contains non-printable characters"
    ELSE ""

\* Validate, the loop over the characters of the path
ControlError(p) ==
    LET bad == { i \in 1..Len(p.path) : p.path[i] \in ControlChars } IN
      IF bad = {} THEN ""
      ELSE IF p.path[CHOOSE i \in bad : \A j \in bad : i <= j] = "NUL"
        THEN "path contains null byte"
      ELSE "path contains invalid control character"

\* Path.Validate on the operating system os: "" when the path is valid,
\* else the error
Validate(p, os) ==
    IF p.path = << >> THEN "empty path"
    ELSE IF Len(p.path) > MaxPathLength /\ ~p.isUrl THEN "path length exceeds maximum"
    ELSE IF p.isSftp /\ p.isUrl THEN "path cannot be both SFTP and URL"
    ELSE IF ControlError(p) # "" THEN ControlError(p)
    ELSE IF os = "windows" /\ ~p.isSftp /\ ~p.isUrl /\ WindowsError(p) # ""
      THEN WindowsError(p)
    ELSE IF ~HasPrefix(p.path, S_slash) /\ os # "windows" /\ ~p.isUrl
      THEN "path must be absolute"
    ELSE IF ~HasPrefix(p.path, S_slash) /\ p.isSftp
      THEN "SFTP path must be absolute"
    ELSE IF /\ ~p.isSftp /\ ~p.isUrl /\ os = "windows" /\ Len(p.path) > 2
            /\ p.path[2] = ":" /\ p.path[3] # "/"
      THEN "windows path must start with [DriveLetter]:/"
    ELSE IF ~(HasPrefix(p.path, S_http) \/ HasPrefix(p.path, S_https)) /\ p.isUrl
      THEN "URL path must start with http:// or https://"
    ELSE IF SegmentsError(p) # "" THEN SegmentsError(p)
    ELSE IF p.isSftp /\ SftpError(p) # "" THEN SftpError(p)
    ELSE ""

\* Path.ConnectionDetails returns an error
ConnectionDetailsFails(p) == ~p.isSftp \/ ~AtoiOk(p.port)

\* The result of an operation: its error kind ("none" on success) and the
\* set of endpoints ("src", "dst") whose disk or network was accessed.
Result(e, io) == [err |-> e, io |-> io]

\* what a backend call answers
BackendErr(b) == IF b.ok THEN "none" ELSE "backend"

\* Path.Stat of p, the endpoint tag, holding a file or not
StatResult(p, tag, exists, os) ==
    IF Validate(p, os) # "" THEN Result("invalid", {})
    ELSE IF p.isUrl THEN Result(IF exists THEN "none" ELSE "backend", {tag})
    ELSE IF p.isSftp /\ ConnectionDetailsFails(p) THEN Result("conn", {})
    ELSE Result(IF exists THEN "none" ELSE "backend", {tag})

\* ReadText, WriteText, ReadBytes, WriteBytes, Rename, MakeDir, Remove,
\* RemoveDir, Glob: URL test, Validate, dispatch to the backend
UnaryResult(p, b, os) ==
    IF p.isUrl THEN Result("unsupported", {})
    ELSE IF Validate(p, os) # "" THEN Result("invalid", {})
    ELSE IF p.isSftp /\ ConnectionDetailsFails(p) THEN Result("conn", {})
    ELSE Result(BackendErr(b), {"src"})

\* List, ListRecursive: URL test, Validate, IsDir, dispatch
ListResult(p, b, os) ==
    IF p.isUrl THEN Result("unsupported", {})
    ELSE IF Validate(p, os) # "" THEN Result("invalid", {})
    ELSE LET st == StatResult(p, "src", b.srcExists, os) IN
         IF ~(st.err = "none" /\ b.srcIsDir) THEN Result("notDir", st.io)
         ELSE IF p.isSftp /\ ConnectionDetailsFails(p) THEN Result("conn", st.io)
         ELSE Result(BackendErr(b), st.io \cup {"src"})

\* CopyTo: Validate(p), p.Exists(), dest URL test, dispatch
CopyToResult(p, d, b, os) ==
    IF Validate(p, os) # "" THEN Result("invalid", {})
    ELSE LET st == StatResult(p, "src", b.srcExists, os) IN
         IF st.err # "none" THEN Result("notExist", st.io)
         ELSE IF d.isUrl THEN Result("unsupported", st.io)
         ELSE IF \/ p.isSftp /\ ConnectionDetailsFails(p)
                 \/ d.isSftp /\ ConnectionDetailsFails(d)
           THEN Result("conn", st.io)
         ELSE Result(BackendErr(b), st.io \cup {"src", "dst"})

\* MoveTo: URL test, Validate(p), p.Exists(), dest.Exists(), dispatch
MoveToResult(p, d, overwrite, b, os) ==
    IF p.isUrl THEN Result("unsupported", {})
    ELSE IF Validate(p, os) # "" THEN Result("invalid", {})
    ELSE LET st  == StatResult(p, "src", b.srcExists, os)
             dSt == StatResult(d, "dst", b.dstExists, os)
         IN  IF st.err # "none" THEN Result("notExist", st.io)
             ELSE IF dSt.err = "none" /\ ~overwrite
               THEN Result("exist", st.io \cup dSt.io)
             ELSE IF \/ p.isSftp /\ ConnectionDetailsFails(p)
                     \/ d.isSftp /\ ConnectionDetailsFails(d)
               THEN Result("conn", st.io \cup dSt.io)
             ELSE Result(BackendErr(b), st.io \cup dSt.io \cup {"src", "dst"})

UnaryOps == {"ReadText", "WriteText", "ReadBytes", "WriteBytes", "Rename",
             "MakeDir", "Remove", "RemoveDir", "Glob"}
PathOps  == UnaryOps \cup {"List", "ListRecursive", "Stat", "CopyTo", "MoveTo"}

\* the facade method op called on p (with dest d)
FacadeResult(op, p, d, overwrite, b, os) ==
    IF op \in UnaryOps THEN UnaryResult(p, b, os)
    ELSE IF op \in {"List", "ListRecursive"} THEN ListResult(p, b, os)
    ELSE IF op = "Stat" THEN StatResult(p, "src", b.srcExists, os)
    ELSE IF op = "CopyTo" THEN CopyToResult(p, d, b, os)
    ELSE MoveToResult(p, d, overwrite, b, os)

\* Path.SetPath(raw): the new path string, or the error
SetPathResult(p, raw) ==
    IF raw = << >> THEN [err |-> "empty path", path |-> p.path]
    ELSE LET fwd == [i \in 1..Len(raw) |-> IF raw[i] = "\\" THEN "/" ELSE raw[i]] IN
         IF HasPrefix(fwd, S_sftp)
           THEN [err |-> "cannot change path to SFTP path", path |-> p.path]
         ELSE [err  |-> "none",
               path |-> IF Clean(fwd) = S_dot THEN S_slash ELSE Clean(fwd)]

\* Path values as New returns them
NoString == << >>
LocalPath(str) ==
    [path |-> str, isSftp |-> FALSE, isUrl |-> FALSE, host |-> NoString,
     port |-> NoString, username |-> NoString, password |-> NoString]
SftpPath(str, port) ==
    [path |-> str, isSftp |-> TRUE, isUrl |-> FALSE, host |-> <<"h">>,
     port |-> port, username |-> <<"u">>, password |-> <<"p">>]
UrlPath(str) ==
    [path |-> str, isSftp |-> FALSE, isUrl |-> TRUE, host |-> NoString,
     port |-> NoString, username |-> NoString, password |-> NoString]

\* New("/a"), New("sftp://u:p@h/a"), New("/a", &SFTPConfig{Host: "h", ...})
\* with an empty Port, New("http://h/f")
NewPaths ==
    { LocalPath(<<"/", "a">>),
      SftpPath(<<"/", "a">>, <<"2", "2">>),
      SftpPath(<<"/", "a">>, NoString),
      UrlPath(S_http \o <<"h", "/", "f">>) }

\* strings handed to SetPath: "b", "/b/../c", "sftp://h/b", ""
RawInputs ==
    { <<"b">>, <<"/", "b", "/", ".", ".", "/", "c">>,
      S_sftp \o <<"h", "/", "b">>, NoString }

BackendInputs ==
    [srcExists : BOOLEAN, srcIsDir : BOOLEAN, dstExists : BOOLEAN, ok : BOOLEAN]

NoCall == [op |-> "none", overwrite |-> FALSE]

\* no Path operation has been called
PathIdle ==
    /\ goos = "linux"
    /\ src = LocalPath(<<"/", "a">>)
    /\ dst = LocalPath(<<"/", "a">>)
    /\ backend = [srcExists |-> TRUE, srcIsDir |-> FALSE, dstExists |-> FALSE,
                  ok |-> TRUE]
    /\ pathCall = NoCall
    /\ pathRes = Result("none", {})

\* an operation of the facade is called on src (with dest dst)
PathOp(op, overwrite) ==
    /\ pathCall' = [op |-> op, overwrite |-> overwrite]
    /\ pathRes' = FacadeResult(op, src, dst, overwrite, backend, goos)
    /\ UNCHANGED <<goos, src, dst, backend>>

\* src.SetPath(raw)
SetPathSrc(raw) ==
    /\ src' = [src EXCEPT !.path = SetPathResult(src, raw).path]
    /\ pathCall' = [op |-> "SetPath", overwrite |-> FALSE]
    /\ pathRes' = Result(SetPathResult(src, raw).err, {})
    /\ UNCHANGED <<goos, dst, backend>>

\* dst.SetPath(raw)
SetPathDst(raw) ==
    /\ dst' = [dst EXCEPT !.path = SetPathResult(dst, raw).path]
    /\ pathCall' = [op |-> "SetPath", overwrite |-> FALSE]
    /\ pathRes' = Result(SetPathResult(dst, raw).err, {})
    /\ UNCHANGED <<goos, src, backend>>

\* ------------------------------------------------------------ path values
\* strings.ReplaceAll(path, "\\", "/")
ReplaceBackslash(str) ==
    [i \in 1..Len(str) |-> IF str[i] = "\\" THEN "/" ELSE str[i]]

\* the working directory filepath.Abs resolves against
Cwd == <<"/", "w">>

\* filepath.Join(a, b) of two non-empty strings, and filepath.Dir
FilepathJoin(a, b) == Clean(a \o S_slash \o b)
FilepathDir(str) ==
    LET slashes == { i \in 1..Len(str) : str[i] = "/" } IN
      IF slashes = {} THEN S_dot
      ELSE Clean(SubSeq(str, 1, CHOOSE i \in slashes : \A j \in slashes : j <= i))

\* url.Parse of scheme://[user[:password]@]host[:port][/path]: whether it
\* succeeds (no control character, a numeric port) and the parts of the URL
ParseUrl(str, scheme) ==
    LET rest     == TrimPrefix(str, scheme)
        auth     == Split(rest, "/")[1]
        parts    == Split(auth, "@")
        hostport == Split(parts[Len(parts)], ":")
        user     == IF Len(parts) > 1 THEN Split(parts[1], ":") ELSE <<NoString>>
        port     == IF Len(hostport) > 1 THEN hostport[2] ELSE NoString
    IN  [ok       |-> /\ \A i \in 1..Len(str) : str[i] \notin ControlChars
                      /\ port = NoString \/ AtoiOk(port),
         scheme   |-> scheme,
         auth     |-> auth,
         host     |-> hostport[1],
         port     |-> port,
         username |-> user[1],
         password |-> IF Len(user) > 1 THEN user[2] ELSE NoString,
         path     |-> SubSeq(rest, Len(auth) + 1, Len(rest))]

\* URL.String of a parsed URL
UrlString(u) == u.scheme \o u.auth \o u.path

\* the *SFTPConfig handed to New (NoConf: none)
NoConf == [Host |-> NoString, Port |-> NoString, Username |-> NoString,
           Password |-> NoString, given |-> FALSE]
SftpConf(host, port) ==
    [Host |-> host, Port |-> port, Username |-> <<"u">>, Password |-> <<"p">>,
     given |-> TRUE]

\* how a call of New ends: "none" with the new Path, "nil" when New returns
\* nil, "fatal" when log.Fatal ends the process
NewEnds(e, p) == [err |-> e, path |-> p]

\* the end of each branch of New: err = newPath.Validate(); log.Fatal(err)
NewValidated(p, os) ==
    IF Validate(p, os) # "" THEN NewEnds("fatal", p) ELSE NewEnds("none", p)

\* New(raw, conf)
New(raw, conf, os) ==
    IF raw = NoString THEN NewEnds("nil", LocalPath(NoString))
    ELSE LET path == ReplaceBackslash(raw) IN
      IF HasPrefix(path, S_sftp) /\ ~conf.given
        THEN LET u     == ParseUrl(path, S_sftp)
                 clean == IF Clean(u.path) = S_dot THEN S_slash ELSE Clean(u.path)
             IN  IF ~u.ok THEN NewEnds("nil", LocalPath(NoString))
                 ELSE NewValidated(
                        [path |-> clean, isSftp |-> TRUE, isUrl |-> FALSE,
                         host |-> u.host,
                         port |-> IF u.port = NoString THEN <<"2", "2">> ELSE u.port,
                         username |-> u.username, password |-> u.password], os)
      ELSE IF HasPrefix(path, S_http) \/ HasPrefix(path, S_https)
        THEN LET u == ParseUrl(path, IF HasPrefix(path, S_https)
                                       THEN S_https ELSE S_http)
             IN  IF ~u.ok THEN NewEnds("fatal", LocalPath(NoString))
                 ELSE NewValidated(UrlPath(UrlString(u)), os)
      ELSE IF conf.given
        THEN IF ~HasPrefix(path, S_slash)
               THEN NewEnds("fatal", LocalPath(NoString))
             ELSE NewValidated(
                    [path |-> path, isSftp |-> TRUE, isUrl |-> FALSE,
                     host |-> conf.Host, port |-> conf.Port,
                     username |-> conf.Username, password |-> conf.Password], os)
      ELSE NewValidated(
             LocalPath(IF HasPrefix(path, S_dot)
                         THEN FilepathJoin(Cwd, path) ELSE path), os)

\* Path.Copy: the fields the composite literal names
Copy(p) ==
    [path |-> p.path, isSftp |-> p.isSftp, isUrl |-> FALSE, host |-> p.host,
     port |-> p.port, username |-> p.username, password |-> p.password]

\* what a method returning *Path returns: the receiver itself (same), or a
\* new Path
Returned(p, same) == [path |-> p, same |-> same]

\* Path.Join(arg)
Join(p, arg) ==
    IF arg = NoString THEN Returned(p, TRUE)
    ELSE LET path == ReplaceBackslash(arg) IN
      IF p.isUrl
        THEN LET basePath == IF HasSuffix(p.path, S_slash)
                               THEN SubSeq(p.path, 1, Len(p.path) - 1)
                               ELSE p.path
                 joinPath == TrimPrefix(path, S_slash)
             IN  Returned(UrlPath(IF joinPath = NoString THEN basePath
                                  ELSE basePath \o S_slash \o joinPath), FALSE)
      ELSE IF p.isSftp
        THEN Returned([p EXCEPT !.path = Clean(FilepathJoin(p.path, path))], FALSE)
      ELSE Returned(LocalPath(Clean(FilepathJoin(p.path, path))), FALSE)

\* Path.Parent
Parent(p) ==
    IF p.isUrl
      THEN LET scheme == IF HasPrefix(p.path, S_https) THEN S_https ELSE S_http
               u      == ParseUrl(p.path, scheme)
               slashes == { i \in 1..Len(u.path) : u.path[i] = "/" }
               lastSlash == CHOOSE i \in slashes : \A j \in slashes : j <= i
           IN  IF ~u.ok THEN Returned(UrlPath(FilepathDir(p.path)), FALSE)
               ELSE IF u.path = NoString \/ u.path = S_slash THEN Returned(p, TRUE)
               ELSE Returned(UrlPath(UrlString(
                      [u EXCEPT !.path = IF lastSlash <= 1 THEN S_slash
                                         ELSE SubSeq(u.path, 1, lastSlash - 1)])),
                      FALSE)
    ELSE IF p.path = S_slash THEN Returned(p, TRUE)
    ELSE IF p.isSftp THEN Returned([p EXCEPT !.path = FilepathDir(p.path)], FALSE)
    ELSE Returned(LocalPath(FilepathDir(p.path)), FALSE)

\* Path.Exists, Path.IsDir, Path.IsFile
Exists(p, b, os) == StatResult(p, "src", b.srcExists, os).err = "none"
IsDir(p, b, os) ==
    IF p.isUrl THEN FALSE
    ELSE StatResult(p, "src", b.srcExists, os).err = "none" /\ b.srcIsDir
IsFile(p, b, os) ==
    IF p.isUrl THEN TRUE
    ELSE StatResult(p, "src", b.srcExists, os).err = "none" /\ ~b.srcIsDir

\* the strings and configurations handed to New: "", "/a", "a", "./a", "/a/",
\* "sftp://u:p@h:22/a", "sftp://h", "sftp://h:x/a", "sftp://-h/a",
\* "http://h/f", "http://h", "http://h/.", "http://h:x/f", and "/a", "/" and
\* "a" with a configuration
NewInputs ==
    { <<raw, NoConf>> :
        raw \in { NoString, <<"/", "a">>, <<"a">>, <<".", "/", "a">>,
                  <<"/", "a", "/">>,
                  S_sftp \o <<"u", ":", "p", "@", "h", ":", "2", "2", "/", "a">>,
                  S_sftp \o <<"h">>,
                  S_sftp \o <<"h", ":", "x", "/", "a">>,
                  S_sftp \o <<"-", "h", "/", "a">>,
                  S_http \o <<"h", "/", "f">>,
                  S_http \o <<"h">>,
                  S_http \o <<"h", "/", ".">>,
                  S_http \o <<"h", ":", "x", "/", "f">> } }
    \cup { <<raw, SftpConf(<<"h">>, NoString)>> :
             raw \in { <<"/", "a">>, S_slash, <<"a">> } }

\* the strings handed to Join: "", "b", "/", ".."
JoinInputs == { NoString, <<"b">>, S_slash, <<".", ".">> }

\* p := New(raw, conf)
NewCall(raw, conf) ==
    /\ pathRes.err # "fatal"
    /\ LET r == New(raw, conf, goos) IN
         /\ src' = IF r.err = "none" THEN r.path ELSE src
         /\ dst' = IF r.err = "none" THEN r.path ELSE dst
         /\ pathCall' = [op |-> "New", overwrite |-> FALSE, from |-> "New",
                         same |-> r.err = "none" \/ pathCall.same]
         /\ pathRes' = Result(r.err, {})
    /\ UNCHANGED <<goos, backend>>

\* q := p.Join(arg), q := p.Parent(), q := p.Copy()
Derive(op, r) ==
    /\ pathRes.err # "fatal"
    /\ dst' = r.path
    /\ pathCall' = [op |-> op, overwrite |-> FALSE, from |-> op, same |-> r.same]
    /\ pathRes' = Result("none", {})
    /\ UNCHANGED <<goos, src, backend>>
JoinCall(arg) == Derive("Join", Join(src, arg))
ParentCall == Derive("Parent", Parent(src))
CopyCall == Derive("Copy", Returned(Copy(src), FALSE))

\* q.SetPath(raw) on the path the last call returned; p is changed with it
\* when q is p itself
SetPathReturned(raw) ==
    /\ pathRes.err # "fatal"
    /\ dst' = [dst EXCEPT !.path = SetPathResult(dst, raw).path]
    /\ src' = IF pathCall.same THEN dst' ELSE src
    /\ pathCall' = [pathCall EXCEPT !.op = "SetPath"]
    /\ pathRes' = Result(SetPathResult(dst, raw).err, {})
    /\ UNCHANGED <<goos, backend>>

\* ===================================================== local file system
\* What a name of the file system holds: nothing, a regular file (data in
\* chunks of one read each) or a directory (entries: its regular files).
\* "tmp" is dest + ".tmp"; "parent" is the directory of dest, whose own
\* entries (dest, tmp) are the nodes above and not repeated in it.
Nodes == {"src", "dest", "tmp", "parent"}

NoNode == [kind |-> "none", data |-> << >>, mode |-> "", mtime |-> "",
           entries |-> {}, target |-> ""]
File(d, m, t) == [kind |-> "file", data |-> d, mode |-> m, mtime |-> t,
                  entries |-> {}, target |-> ""]
Dir(es, m, t) == [kind |-> "dir", data |-> << >>, mode |-> m, mtime |-> t,
                  entries |-> es, target |-> ""]
Entry(n, d, m, t) ==
    [name |-> n, data |-> d, mode |-> m, mtime |-> t, target |-> ""]

\* a symbolic link to the name tgt, and one that is an entry of a directory
Symlink(tgt) == [kind |-> "symlink", data |-> << >>, mode |-> "0777",
                 mtime |-> "t1", entries |-> {}, target |-> tgt]
LinkEntry(n, tgt) ==
    [name |-> n, data |-> << >>, mode |-> "0777", mtime |-> "t1", target |-> tgt]

\* the names links point at: "t" is a regular file that no call changes,
\* "gone" does not exist
LinkTargets == {"t", "gone"}
LinkTarget == File(<<5, 6>>, "0640", "t2")

\* os.Stat(name), os.Open(name): a symbolic link is followed (NoNode: the
\* call fails); os.Lstat and DirEntry.Info() describe the link itself
Stat(n) ==
    IF n.kind # "symlink" THEN n
    ELSE IF n.target = "t" THEN LinkTarget ELSE NoNode

\* the bytes os.Open(entry) of a directory entry reads
Opened(e) == IF e.target = "" THEN e.data ELSE LinkTarget.data

\* DefaultPathOption().Permissions, as the octal literal of the source
DefaultPermissions == "0644"

\* the CopyOptions a caller passes; DefaultCopyOptions is what the routines
\* use when none is passed
OptionInputs ==
    [Recursive : BOOLEAN, PreserveAttributes : BOOLEAN,
     Permissions : {DefaultPermissions}, FollowSymlinks : {FALSE}]
DefaultCopyOptions ==
    [Recursive |-> FALSE, PreserveAttributes |-> TRUE,
     Permissions |-> DefaultPermissions, FollowSymlinks |-> FALSE]
\* the options of the copies of symbolic links
SymlinkOptionInputs ==
    [Recursive : {TRUE}, PreserveAttributes : BOOLEAN,
     Permissions : {DefaultPermissions}, FollowSymlinks : BOOLEAN]

\* what the source and the destination hold before the call
SrcInputs ==
    { NoNode,
      File(<<1, 2>>, "0600", "t1"),
      Dir({Entry("x", <<1>>, "0600", "t1")}, "0755", "t1") }
DestInputs ==
    { NoNode,
      File(<<3>>, "0644", "t0"),
      Dir({}, "0755", "t0"),
      Dir({Entry("y", <<3>>, "0644", "t0")}, "0755", "t0") }
ParentInputs == { NoNode, Dir({}, "0755", "t0") }

\* the transfer routines, by the file that holds them
LocalVariants == {"locallocal", "part_014"}
CopyVariants == LocalVariants \cup {"localsftp", "sftplocal", "part_006", "sftpsftp"}
UrlVariants == {"urllocal", "urlsftp"}

\* the status codes of the server's answers (0: the request itself failed)
StatusInputs == {0, 199, 200, 299, 300, 404}
\* the body of a 2xx answer, in chunks of one read each
Body == <<7, 8>>
\* resp.ContentLength of a 2xx answer: -1 when the server does not tell the
\* length, else the length of the body
LengthInputs == {0 - 1, Len(Body)}

\* the goroutines that call the file operations of one path
Goroutines == {"g1", "g2"}

\* a call of WriteText, ReadText, WriteBytes or ReadBytes: its arguments, the
\* encoded bytes, the value a read returns and the error
NoFileCall ==
    [op |-> "none", pc |-> "idle", variant |-> "", text |-> << >>, enc |-> "",
     buf |-> << >>, out |-> << >>, err |-> "none", parents |-> FALSE,
     existsOk |-> FALSE]

NoCallXf ==
    [op |-> "none", pc |-> "idle", overwrite |-> FALSE,
     opts |-> DefaultCopyOptions, variant |-> "", srcInfo |-> NoNode,
     todo |-> {}, err |-> "none", facade |-> FALSE, xdev |-> FALSE,
     asked |-> DefaultCopyOptions, sent |-> FALSE, status |-> 0, code |-> 0,
     old |-> [n \in Nodes |-> NoNode], parents |-> FALSE, existsOk |-> FALSE,
     ctx |-> "live", late |-> 0, progress |-> << >>, length |-> 0,
     sameServer |-> FALSE, fast |-> "", cpuCount |-> 1, bufferSize |-> 0,
     move |-> "",
     calls |-> [g \in Goroutines |-> NoFileCall]]

\* no transfer routine is running
XferIdle ==
    /\ disk = [n \in Nodes |-> NoNode]
    /\ xf = NoCallXf

\* ================================================================ manager
Init ==
    /\ \E c \in ConfigInputs : MgrInit(c)
    /\ PathIdle
    /\ XferIdle

\* Path operations: two paths as New built them, a backend, no manager call
InitPath ==
    /\ MgrInit([MaxIdleTime |-> 0, MaxConnections |-> 0])
    /\ goos = "linux"
    /\ src \in NewPaths
    /\ dst \in NewPaths
    /\ backend \in BackendInputs
    /\ pathCall = NoCall
    /\ pathRes = Result("none", {})
    /\ XferIdle

\* Path values: p as a successful New returned it, q = p
InitValue ==
    /\ MgrInit([MaxIdleTime |-> 0, MaxConnections |-> 0])
    /\ goos = "linux"
    /\ \E in \in NewInputs :
         /\ New(in[1], in[2], goos).err = "none"
         /\ src = New(in[1], in[2], goos).path
    /\ dst = src
    /\ backend \in { b \in BackendInputs : b.ok /\ ~b.dstExists }
    /\ pathCall = [op |-> "New", overwrite |-> FALSE, from |-> "New", same |-> TRUE]
    /\ pathRes = Result("none", {})
    /\ XferIdle

\* ------------------------------------------------------- Manager.GetClient
\* entry: details.applyDefaults(); key := details.String()
GetClientCall(p, d) ==
    /\ pc[p] = "idle"
    /\ pc' = [pc EXCEPT ![p] = "check"]
    /\ det' = [det EXCEPT ![p] = applyDefaults(d)]
    /\ res' = [res EXCEPT ![p] = "none"]
    /\ UNCHANGED <<info, infoUsed, attempt, sleepLeft, ctxDone, probed, dials>>
    /\ UNCHANGED mgrVars

\* the pool limit test of GetClient
PoolLimitReached == PoolLen >= config.MaxConnections

\* return from GetClient with an error
ReturnErr(p, kind) ==
    /\ pc' = [pc EXCEPT ![p] = "idle"]
    /\ res' = [res EXCEPT ![p] = kind]
    /\ det' = [det EXCEPT ![p] = NoDetails]
    /\ info' = [info EXCEPT ![p] = 0]
    /\ infoUsed' = [infoUsed EXCEPT ![p] = 0]
    /\ probed' = [probed EXCEPT ![p] = 0]
    /\ dials' = [dials EXCEPT ![p] = 0]
    /\ attempt' = [attempt EXCEPT ![p] = 0]
    /\ sleepLeft' = [sleepLeft EXCEPT ![p] = 0]
    /\ ctxDone' = [ctxDone EXCEPT ![p] = FALSE]

\* return from GetClient with a client; the caller now uses it
ReturnOk(p, s) ==
    /\ pc' = [pc EXCEPT ![p] = "using"]
    /\ res' = [res EXCEPT ![p] = "ok"]
    /\ det' = [det EXCEPT ![p] = NoDetails]
    /\ info' = [info EXCEPT ![p] = s]
    /\ infoUsed' = [infoUsed EXCEPT ![p] = 0]
    /\ probed' = [probed EXCEPT ![p] = 0]
    /\ dials' = [dials EXCEPT ![p] = 0]
    /\ attempt' = [attempt EXCEPT ![p] = 0]
    /\ sleepLeft' = [sleepLeft EXCEPT ![p] = 0]
    /\ ctxDone' = [ctxDone EXCEPT ![p] = FALSE]

\* "Check connection pool limit": RLock; len(m.clients) >= MaxConnections
CheckLimit(p) ==
    /\ pc[p] = "check"
    /\ IF PoolLimitReached
         THEN ReturnErr(p, "poolLimit")
         ELSE /\ pc' = [pc EXCEPT ![p] = "lookup"]
              /\ UNCHANGED <<det, info, infoUsed, attempt, sleepLeft, ctxDone,
                             probed, dials, res>>
    /\ UNCHANGED mgrVars

\* getExistingClient, first critical section: the lookup under RLock
Lookup(p) ==
    /\ pc[p] = "lookup"
    /\ LET k == det[p].key IN
         IF clients[k].id # 0
           THEN /\ clients' = [clients EXCEPT ![k].idle = 0]
                /\ info' = [info EXCEPT ![p] = clients[k].id]
                /\ pc' = [pc EXCEPT ![p] = "probe"]
           ELSE /\ pc' = [pc EXCEPT ![p] = "loop"]
                /\ UNCHANGED <<clients, info>>
    /\ UNCHANGED <<config, sessions, done, closePc, cleanupPc>>
    /\ UNCHANGED <<det, infoUsed, attempt, sleepLeft, ctxDone, probed, dials, res>>

\* getExistingClient: info.client.Getwd() outside the lock
Probe(p) ==
    /\ pc[p] = "probe"
    /\ IF GetwdOk(info[p])
         THEN ReturnOk(p, info[p])
         ELSE /\ pc' = [pc EXCEPT ![p] = "evict"]
              /\ probed' = [probed EXCEPT ![p] = info[p]]
              /\ UNCHANGED <<det, info, infoUsed, attempt, sleepLeft, ctxDone,
                             dials, res>>
    /\ UNCHANGED mgrVars

\* getExistingClient: "Connection is dead, remove it": Lock; delete(key)
Evict(p) ==
    /\ pc[p] = "evict"
    /\ clients' = [clients EXCEPT ![det[p].key] = NoInfo]
    /\ pc' = [pc EXCEPT ![p] = "loop"]
    /\ info' = [info EXCEPT ![p] = 0]
    /\ UNCHANGED <<config, sessions, done, closePc, cleanupPc>>
    /\ UNCHANGED <<det, infoUsed, attempt, sleepLeft, ctxDone, probed, dials, res>>

\* (variant: the loop stops one attempt early)
LoopCondShort(a, d) == a < d.MaxRetries

\* the retry loop's condition: attempt <= details.MaxRetries
LoopCond(a, d) == a <= d.MaxRetries

\* a connection as createNewClient builds it; outcome "ok": the SFTP client
\* was created, "sftpFail": sftp.NewClient failed and sshClient was closed
NewSession(d, outcome) ==
    [ key      |-> d.key,
      password |-> d.Password,
      sftpOpen |-> outcome = "ok",
      sshOpen  |-> outcome = "ok",
      alive    |-> outcome = "ok",
      ka       |-> IF d.KeepAliveInterval > 0 THEN "running" ELSE "none",
      closedBy |-> IF outcome = "ok" THEN "none" ELSE "create" ]

\* the retry loop after a failed createNewClient: time.Sleep unless this
\* was the last attempt, then attempt++
AfterFailure(p) ==
    /\ IF attempt[p] < det[p].MaxRetries
         THEN /\ pc' = [pc EXCEPT ![p] = "sleep"]
              /\ sleepLeft' = [sleepLeft EXCEPT ![p] = det[p].RetryDelay]
              /\ UNCHANGED attempt
         ELSE /\ attempt' = [attempt EXCEPT ![p] = @ + 1]
              /\ UNCHANGED <<pc, sleepLeft>>
    /\ dials' = [dials EXCEPT ![p] = @ + 1]
    /\ UNCHANGED <<det, info, infoUsed, ctxDone, probed, res>>

\* one iteration of the retry loop: loop condition, ctx check, then
\* createNewClient up to its map store (ssh.Dial, go keepAlive,
\* sftp.NewClient, the clientInfo)
LoopStep(p) ==
    /\ pc[p] = "loop"
    /\ IF ~LoopCond(attempt[p], det[p])
         THEN /\ ReturnErr(p, "connectFailed")
              /\ UNCHANGED sessions
         ELSE IF ctxDone[p]
           THEN /\ ReturnErr(p, "ctxErr")
                /\ UNCHANGED sessions
           ELSE \/ \* ssh.Dial fails
                   /\ AfterFailure(p)
                   /\ UNCHANGED sessions
                \/ \* ssh.Dial succeeds, sftp.NewClient fails
                   /\ det[p].Password = ServerPassword
                   /\ Len(sessions) < MaxSessions
                   /\ sessions' = Append(sessions, NewSession(det[p], "sftpFail"))
                   /\ AfterFailure(p)
                \/ \* both succeed: the clientInfo is built
                   /\ det[p].Password = ServerPassword
                   /\ Len(sessions) < MaxSessions
                   /\ sessions' = Append(sessions, NewSession(det[p], "ok"))
                   /\ info' = [info EXCEPT ![p] = Len(sessions) + 1]
                   /\ infoUsed' = [infoUsed EXCEPT ![p] = 0]
                   /\ dials' = [dials EXCEPT ![p] = @ + 1]
                   /\ pc' = [pc EXCEPT ![p] = "store"]
                   /\ UNCHANGED <<det, attempt, sleepLeft, ctxDone, probed, res>>
    /\ UNCHANGED <<config, clients, done, closePc, cleanupPc>>

\* time.Sleep(details.RetryDelay) is over; attempt++
Wake(p) ==
    /\ pc[p] = "sleep"
    /\ sleepLeft[p] = 0
    /\ pc' = [pc EXCEPT ![p] = "loop"]
    /\ attempt' = [attempt EXCEPT ![p] = @ + 1]
    /\ UNCHANGED <<det, info, infoUsed, sleepLeft, ctxDone, probed, dials, res>>
    /\ UNCHANGED mgrVars

\* createNewClient, "Store new client": Lock; m.clients[key] = info
Store(p) ==
    /\ pc[p] = "store"
    /\ clients' = [clients EXCEPT ![det[p].key] =
                      [id |-> info[p], idle |-> infoUsed[p]]]
    /\ ReturnOk(p, info[p])
    /\ UNCHANGED <<config, sessions, done, closePc, cleanupPc>>

\* the caller's context is cancelled.  ctx is read at the head of the retry
\* loop only, so a cancellation at any earlier point of the call (or before
\* it) is the same behaviour as one on arrival at the loop.
Cancel(p) ==
    /\ pc[p] \in {"loop", "sleep"}
    /\ ~ctxDone[p]
    /\ ctxDone' = [ctxDone EXCEPT ![p] = TRUE]
    /\ UNCHANGED <<pc, det, info, infoUsed, attempt, sleepLeft, probed, dials, res>>
    /\ UNCHANGED mgrVars

\* ------------------------------------------- operations using the client
\* what the caller of GetClient is: a direct caller, or one of the SFTP
\* primitives / transfer routines
Ops == {"GetClient", "Stat", "ReadText", "ReadBytes", "WriteText",
        "WriteBytes", "Copy", "Move", "List", "RemoveDir", "Remove",
        "RenameFile", "MakeDir", "Glob"}

\* the operation has "defer client.Close()" after its GetClient
DefersClose(op) ==
    op \in {"List", "RemoveDir", "Remove", "RenameFile", "MakeDir", "Glob"}

\* the operation returns; its deferred calls run
OpReturn(p, op) ==
    /\ pc[p] = "using"
    /\ LET s == info[p] IN
         sessions' =
           IF DefersClose(op) /\ sessions[s].sftpOpen
             THEN [sessions EXCEPT ![s].sftpOpen = FALSE,
                                   ![s].closedBy = "op"]
             ELSE sessions
    /\ pc' = [pc EXCEPT ![p] = "idle"]
    /\ info' = [info EXCEPT ![p] = 0]
    /\ UNCHANGED <<det, infoUsed, attempt, sleepLeft, ctxDone, probed, dials, res>>
    /\ UNCHANGED <<config, clients, done, closePc, cleanupPc>>

\* ---------------------------------------------------- background tasks
\* (variant: a session idle for exactly MaxIdleTime is swept too)
IdleExpiredAtLimit(i) == i.idle >= config.MaxIdleTime

\* now.Sub(info.lastUsed) > m.config.MaxIdleTime
IdleExpired(i) == i.idle > config.MaxIdleTime

\* cleanup, case <-ticker.C: the sweep under the write lock
CleanupTick ==
    /\ cleanupPc = "running"
    /\ LET gone == { k \in PoolKeys : IdleExpired(clients[k]) } IN
         /\ clients' = [k \in Keys |-> IF k \in gone THEN NoInfo ELSE clients[k]]
         /\ sessions' = [s \in Ids |->
                           IF \E k \in gone : clients[k].id = s
                             THEN ManagerClosed(sessions[s], "sweep")
                             ELSE sessions[s]]
    /\ UNCHANGED <<config, done, closePc, cleanupPc>>
    /\ UNCHANGED procVars

\* (variant: the sweep loop has no case for m.done)
CleanupNeverStops ==
    /\ FALSE
    /\ UNCHANGED <<mgrVars, procVars>>

\* cleanup, case <-m.done
CleanupStop ==
    /\ cleanupPc = "running"
    /\ done
    /\ cleanupPc' = "stopped"
    /\ UNCHANGED <<config, clients, sessions, done, closePc>>
    /\ UNCHANGED procVars

\* keepAlive, case <-ticker.C: the ping; on error the goroutine returns
KeepAlivePing(s) ==
    /\ s \in Ids
    /\ sessions[s].ka = "running"
    /\ sessions' = IF SendRequestOk(s) THEN sessions
                   ELSE [sessions EXCEPT ![s].ka = "failed"]
    /\ UNCHANGED <<config, clients, done, closePc, cleanupPc>>
    /\ UNCHANGED procVars

\* keepAlive, case <-m.done
KeepAliveStop(s) ==
    /\ s \in Ids
    /\ sessions[s].ka = "running"
    /\ done
    /\ sessions' = [sessions EXCEPT ![s].ka = "stopped"]
    /\ UNCHANGED <<config, clients, done, closePc, cleanupPc>>
    /\ UNCHANGED procVars

\* ------------------------------------------------------- Manager.Close
\* close(m.done)
CloseSignal ==
    /\ closePc = "none"
    /\ done' = TRUE
    /\ closePc' = "locking"
    /\ UNCHANGED <<config, clients, sessions, cleanupPc>>
    /\ UNCHANGED procVars

\* Lock; close every pooled client; m.clients = make(...); Unlock
CloseFinish ==
    /\ closePc = "locking"
    /\ sessions' = [s \in Ids |->
                      IF s \in Pooled
                        THEN ManagerClosed(sessions[s], "close")
                        ELSE sessions[s]]
    /\ clients' = [k \in Keys |-> NoInfo]
    /\ closePc' = "returned"
    /\ UNCHANGED <<config, done, cleanupPc>>
    /\ UNCHANGED procVars

\* ----------------------------------------------------------- environment
\* the server or the network drops a connection
ServerDrop(s) ==
    /\ s \in Ids
    /\ sessions[s].alive
    /\ sessions[s].sshOpen
    /\ sessions' = [sessions EXCEPT ![s].alive = FALSE]
    /\ UNCHANGED <<config, clients, done, closePc, cleanupPc>>
    /\ UNCHANGED procVars

\* elapsed time t after one more second, saturating at cap
Elapse(t, cap) == IF t < cap THEN t + 1 ELSE t

\* one second passes
Tick ==
    /\ clients' = [k \in Keys |->
                     IF clients[k].id = 0 THEN clients[k]
                     ELSE [clients[k] EXCEPT
                             !.idle = Elapse(@, config.MaxIdleTime + 1)]]
    /\ infoUsed' = [p \in Procs |->
                      IF pc[p] = "store"
                        THEN Elapse(infoUsed[p], config.MaxIdleTime + 1)
                        ELSE infoUsed[p]]
    /\ sleepLeft' = [p \in Procs |->
                       IF sleepLeft[p] > 0 THEN sleepLeft[p] - 1 ELSE 0]
    /\ UNCHANGED <<config, sessions, done, closePc, cleanupPc>>
    /\ UNCHANGED <<pc, det, info, attempt, ctxDone, probed, dials, res>>

\* the steps of the callers in P, their ConnectionDetails drawn from D
Calls(P, D) ==
    \/ \E p \in P : \E d \in D : GetClientCall(p, d)
    \/ \E p \in P : CheckLimit(p)
    \/ \E p \in P : Lookup(p)
    \/ \E p \in P : Probe(p)
    \/ \E p \in P : Evict(p)
    \/ \E p \in P : LoopStep(p)
    \/ \E p \in P : Wake(p)
    \/ \E p \in P : Store(p)
    \/ \E p \in P : Cancel(p)
    \/ \E p \in P : \E op \in Ops : OpReturn(p, op)

\* ------------------------------------------------ local-to-local transfers
\* Every system call that changes the file system is a step of its own, so
\* that every state a concurrent reader can see is a state of the model.
\* Calls that can fail for reasons outside the model (I/O errors, the
\* timeout of the routine's context) fail nondeterministically.

\* (variant: the fallback always writes to dest itself)
TempDestInPlace(overwrite) == "dest"

\* the name the copy fallback of Move writes to: dest + ".tmp" when overwrite
TempDest(overwrite) == IF overwrite THEN "tmp" ELSE "dest"

\* the directory dest and dest + ".tmp" are entries of exists
ParentExists == disk["parent"].kind = "dir"

\* os.Rename(old, new) is able to replace what new holds by what old holds
RenameOk(old, new) ==
    /\ ParentExists
    /\ \/ old.kind = "file" /\ new.kind \in {"none", "file"}
       \/ old.kind = "dir" /\ (new.kind = "none"
                               \/ (new.kind = "dir" /\ new.entries = {}))

\* os.MkdirAll(name, perm): name and its missing parents become directories
MkdirAll(name, perm) ==
    [disk EXCEPT
       ![name] = IF @.kind = "dir" THEN @ ELSE Dir({}, perm, "now"),
       !["parent"] = IF @.kind = "dir" \/ name = "parent" THEN @
                     ELSE Dir({}, perm, "now")]

\* (variant: a failure leaves what was written)
RemoveTempSkipped(t) == disk' = disk

\* os.Remove(tempDest) / os.RemoveAll(tempDest) on a failure of the fallback
RemoveTemp(t) == disk' = [disk EXCEPT ![t] = NoNode]

\* (variant: the source is kept)
RemoveAllSrcSkipped == disk' = disk

\* os.RemoveAll(src) succeeds
RemoveAllSrc == disk' = [disk EXCEPT !["src"] = NoNode]

\* where a returning routine leaves the call: with its caller ("done"), or
\* with the Move routine of an SFTP pair that called Copy ("copied")
Returns == IF xf.op = "Copy" /\ xf.move # "" THEN "copied" ELSE "done"

\* the routine returns e ("none": nil)
XfReturn(e) == xf' = [xf EXCEPT !.pc = Returns, !.err = e]

\* "select { case <-ctx.Done(): return ctx.Err(); default: }" at the head of
\* a loop: the case of ctx.Done() is taken
CtxNeverChecked == FALSE
CtxDone == xf.ctx = "done"

\* the call options.ProgressFunc(total, copied) that follows a write;
\* xf.progress is the list of the calls that a ProgressFunc set in the
\* options receives
ProgressCalls(report, total, copied) ==
    IF report THEN <<[total |-> total, done |-> copied]>> ELSE << >>

\* one buffer has been read and written: copied += nw, ProgressFunc.  A
\* deadline that passed after the check of this iteration is seen by the
\* next check; late counts the buffers written after the deadline.
BufferWritten(report, total, copied) ==
    xf' = [xf EXCEPT
             !.ctx = IF @ = "passed" THEN "done" ELSE @,
             !.late = IF xf.ctx = "live" THEN @ ELSE @ + 1,
             !.progress = @ \o ProgressCalls(report, total, copied)]

\* the pcs at which a routine is at the head of a buffer loop, and of a
\* loop over the entries of a directory
BufferLoops == {"copy", "ccopy", "ubody"}
EntryLoops == {"entries", "centries"}

\* The deadline of the context passes, or the context is cancelled, while
\* the routine runs: before the next check of ctx.Done() ("done") or, in a
\* buffer loop, after the check of the iteration in progress ("passed").
Expire ==
    /\ xf.op \in {"Move", "Copy", "UrlCopy"}
    /\ xf.pc \notin {"idle", "done"}
    /\ xf.ctx = "live"
    /\ \/ xf' = [xf EXCEPT !.ctx = "done"]
       \/ /\ xf.pc \in BufferLoops
          /\ xf' = [xf EXCEPT !.ctx = "passed"]
    /\ UNCHANGED disk

\* the errors a failing copy of one directory entry returns
EntryErrors == {"open", "create", "read", "write", "sync", "rename", "chtimes"}

\* Path.MoveTo on two local paths: p.Exists(), dest.Exists() && !overwrite,
\* then pathlocallocal.Move with the default options.  destStat: dest.Stat()
\* is able to succeed (dest passes Validate).
MoveToCall(overwrite, destStat, xdev) ==
    /\ xf.pc = "idle"
    /\ xf' = [xf EXCEPT
                !.op = "Move", !.facade = TRUE, !.overwrite = overwrite,
                !.old = disk,
                !.opts = DefaultCopyOptions, !.xdev = xdev,
                !.pc = IF \/ disk["src"].kind = "none"
                          \/ (destStat /\ disk["dest"].kind # "none" /\ ~overwrite)
                         THEN "done" ELSE "stat",
                !.err = IF disk["src"].kind = "none" THEN "ErrNotExist"
                        ELSE IF destStat /\ disk["dest"].kind # "none" /\ ~overwrite
                          THEN "ErrExist"
                        ELSE "none"]
    /\ UNCHANGED disk

\* pathlocallocal.Move called with the options o
MoveCall(overwrite, o, xdev) ==
    /\ xf.pc = "idle"
    /\ xf' = [xf EXCEPT !.op = "Move", !.facade = FALSE, !.overwrite = overwrite,
                        !.opts = o, !.xdev = xdev, !.pc = "stat", !.old = disk]
    /\ UNCHANGED disk

\* (variant: only a regular file at dest stops the move)
DestFileNoOverwrite == disk["dest"].kind = "file" /\ ~xf.overwrite

\* Move: os.Stat(dest) succeeds and overwrite is false
DestExistsNoOverwrite == disk["dest"].kind # "none" /\ ~xf.overwrite

\* Move: os.Stat(src), os.Stat(dest) and the overwrite test
MoveStat ==
    /\ xf.op = "Move" /\ xf.pc = "stat"
    /\ IF disk["src"].kind = "none" THEN XfReturn("stat")
       ELSE IF DestExistsNoOverwrite
         THEN XfReturn("alreadyExists")
       ELSE xf' = [xf EXCEPT !.pc = "rename", !.srcInfo = disk["src"]]
    /\ UNCHANGED disk

\* Move: "Try atomic rename first", and the choice of the fallback
MoveRename ==
    /\ xf.op = "Move" /\ xf.pc = "rename"
    /\ IF ~xf.xdev /\ RenameOk(disk["src"], disk["dest"])
         THEN /\ disk' = [disk EXCEPT !["dest"] = disk["src"], !["src"] = NoNode]
              /\ XfReturn("none")
         ELSE /\ UNCHANGED disk
              /\ IF xf.srcInfo.kind = "dir"
                   THEN IF ~xf.opts.Recursive THEN XfReturn("ErrInvalid")
                        ELSE xf' = [xf EXCEPT !.pc = "mkdir"]
                   ELSE xf' = [xf EXCEPT !.pc = "open"]

\* moveFile: os.Open(src), os.OpenFile(tempDest, O_WRONLY|O_CREATE|O_TRUNC)
MoveOpen ==
    /\ xf.op = "Move" /\ xf.pc = "open"
    /\ LET t == TempDest(xf.overwrite) IN
         \/ /\ XfReturn("open")
            /\ UNCHANGED disk
         \/ /\ XfReturn("create")
            /\ UNCHANGED disk
         \/ /\ disk[t].kind # "dir" /\ ParentExists
            /\ disk' = [disk EXCEPT ![t] =
                          File(<< >>,
                               IF disk[t].kind = "file" THEN disk[t].mode
                               ELSE xf.opts.Permissions,
                               "now")]
            /\ xf' = [xf EXCEPT !.pc = "copy"]

\* moveFile: one iteration of the copy loop, and the Sync after the last one
MoveChunk ==
    /\ xf.op = "Move" /\ xf.pc = "copy"
    /\ LET t == TempDest(xf.overwrite)
           n == Len(disk[t].data)
       IN  \/ \* ctx.Done(): os.Remove(tempDest)
              /\ CtxDone
              /\ XfReturn("ctx")
              /\ RemoveTemp(t)
           \/ \* a read error: os.Remove(tempDest)
              /\ ~CtxDone
              /\ XfReturn("read")
              /\ RemoveTemp(t)
           \/ \* one buffer read and written
              /\ ~CtxDone
              /\ n < Len(disk["src"].data)
              /\ disk' = [disk EXCEPT ![t].data = Append(@, disk["src"].data[n + 1])]
              /\ BufferWritten(TRUE, Len(disk["src"].data), n + 1)
           \/ \* the write fails or is short
              /\ ~CtxDone
              /\ n < Len(disk["src"].data)
              /\ RemoveTemp(t)
              /\ XfReturn("write")
           \/ \* nr == 0: destFile.Sync()
              /\ ~CtxDone
              /\ n = Len(disk["src"].data)
              /\ \/ /\ RemoveTemp(t)
                    /\ XfReturn("sync")
                 \/ /\ UNCHANGED disk
                    /\ xf' = [xf EXCEPT !.pc = IF xf.overwrite THEN "renameTmp"
                                                ELSE "chtimes"]

\* moveFile, moveDir: os.Rename(tempDest, dest) when a temporary was used
MoveRenameTmp ==
    /\ xf.op = "Move" /\ xf.pc = "renameTmp"
    /\ \/ /\ RenameOk(disk["tmp"], disk["dest"])
          /\ disk' = [disk EXCEPT !["dest"] = disk["tmp"], !["tmp"] = NoNode]
          /\ xf' = [xf EXCEPT !.pc = "chtimes"]
       \/ /\ RemoveTemp("tmp")
          /\ XfReturn("rename")

\* moveFile, moveDir: "Preserve attributes if requested"
MoveChtimes ==
    /\ xf.op = "Move" /\ xf.pc = "chtimes"
    /\ IF ~xf.opts.PreserveAttributes
         THEN /\ xf' = [xf EXCEPT !.pc = "removeSrc"]
              /\ UNCHANGED disk
         ELSE \/ /\ disk' = [disk EXCEPT !["dest"].mtime = xf.srcInfo.mtime]
                 /\ xf' = [xf EXCEPT !.pc = "removeSrc"]
              \/ /\ XfReturn("chtimes")
                 /\ UNCHANGED disk

\* Move: "If copy was successful, remove the source": return os.RemoveAll(src)
MoveRemoveSrc ==
    /\ xf.op = "Move" /\ xf.pc = "removeSrc"
    /\ \/ /\ RemoveAllSrc
          /\ XfReturn("none")
       \/ /\ XfReturn("removeAll")
          /\ UNCHANGED disk

\* moveDir: os.MkdirAll(tempDest), os.ReadDir(src)
MoveMkdir ==
    /\ xf.op = "Move" /\ xf.pc = "mkdir"
    /\ LET t == TempDest(xf.overwrite) IN
         \/ /\ XfReturn("mkdir")
            /\ UNCHANGED disk
         \/ /\ disk[t].kind # "file"
            /\ disk' = MkdirAll(t, xf.opts.Permissions)
            /\ xf' = [xf EXCEPT !.pc = "entries",
                                !.todo = { e.name : e \in disk["src"].entries }]
         \/ \* ReadDir fails: os.RemoveAll(tempDest)
            /\ disk[t].kind # "file"
            /\ disk' = [MkdirAll(t, xf.opts.Permissions) EXCEPT ![t] = NoNode]
            /\ XfReturn("readdir")

\* moveDir: one entry moved by moveFile, or the end of the loop
MoveEntry ==
    /\ xf.op = "Move" /\ xf.pc = "entries"
    /\ LET t == TempDest(xf.overwrite) IN
         IF xf.todo = {}
           THEN /\ xf' = [xf EXCEPT !.pc = IF xf.overwrite THEN "renameTmp"
                                           ELSE "chtimes"]
                /\ UNCHANGED disk
           ELSE \E e \in { f \in disk["src"].entries : f.name \in xf.todo } :
                  \/ \* ctx.Done(): os.RemoveAll(tempDest)
                     /\ CtxDone
                     /\ XfReturn("ctx")
                     /\ RemoveTemp(t)
                  \/ \* a failing moveFile: os.RemoveAll(tempDest)
                     /\ ~CtxDone
                     /\ \E k \in EntryErrors : XfReturn(k)
                     /\ RemoveTemp(t)
                  \/ /\ ~CtxDone
                     /\ disk' = [disk EXCEPT ![t].entries =
                                   { f \in @ : f.name # e.name } \cup
                                   { Entry(e.name, e.data, xf.opts.Permissions,
                                           IF xf.opts.PreserveAttributes
                                             THEN e.mtime ELSE "now") }]
                     /\ xf' = [xf EXCEPT !.todo = @ \ {e.name}]

\* ------------------------------------------------------------- copies
\* Copy of the six routines: pathlocallocal (copy.go and part_014),
\* pathlocalsftp, pathsftplocal (copy.go and part_006) and pathsftpsftp.
\* They run the same steps and differ in the policies below.  A remote file
\* system is a file system: src and dest are nodes of disk for every pair.

SftpVariants == {"localsftp", "sftplocal", "part_006", "sftpsftp"}

\* the mode a file created on an SFTP server gets (the server's umask)
ServerMode == "server"

\* "if !options.Recursive { return ErrInvalid }" for a directory; part_014
\* sets options.Recursive = true instead
NeedsRecursive(v) == v # "part_014"

\* the mode os.OpenFile / client.Create gives a file it creates
CreateMode(v, o, srcMode) ==
    CASE v = "locallocal" -> o.Permissions
      [] v = "part_014" -> IF o.PreserveAttributes THEN srcMode ELSE o.Permissions
      [] v = "localsftp" -> ServerMode
      [] v = "sftplocal" -> "0600"
      [] v = "part_006" -> o.Permissions
      [] v = "sftpsftp" -> ServerMode

\* the mode os.MkdirAll / client.MkdirAll gives a directory it creates
MkdirMode(v, o, srcMode) ==
    CASE v = "locallocal" -> o.Permissions
      [] v = "part_014" -> IF o.PreserveAttributes THEN srcMode ELSE o.Permissions
      [] v = "localsftp" -> ServerMode
      [] v = "sftplocal" -> "0700"
      [] v = "part_006" -> o.Permissions
      [] v = "sftpsftp" -> ServerMode

\* the routine ends with Chmod(dest, srcInfo.Mode())
PreservesMode(v, o) ==
    CASE v \in {"part_014", "sftplocal"} -> o.PreserveAttributes
      [] v = "sftpsftp" -> TRUE
      [] OTHER -> FALSE

\* the routine ends with Chmod(dest, options.Permissions)
SetsPermissions(v, o) ==
    \/ v = "localsftp"
    \/ v = "sftplocal" /\ ~o.PreserveAttributes

\* the routine ends with Chtimes(dest, ..., srcInfo.ModTime())
PreservesMtime(v, o) ==
    CASE v \in {"locallocal", "part_014", "sftplocal", "part_006"} -> o.PreserveAttributes
      [] v = "sftpsftp" -> TRUE
      [] OTHER -> FALSE

\* mode and mtime of a copy whose mode is cur after the data was written
CopiedMode(v, o, cur, srcMode) ==
    IF PreservesMode(v, o) THEN srcMode
    ELSE IF SetsPermissions(v, o) THEN o.Permissions
    ELSE cur
CopiedMtime(v, o, srcMtime) == IF PreservesMtime(v, o) THEN srcMtime ELSE "now"

\* the calls that set attributes and can fail
AttrErrors(v, o) ==
    (IF PreservesMode(v, o) \/ SetsPermissions(v, o) THEN {"chmod"} ELSE {})
    \cup (IF PreservesMtime(v, o) THEN {"chtimes"} ELSE {})

\* (variant: the copy of an entry is created and left empty)
EntryCopyEmpty(e, v, o) ==
    Entry(e.name, << >>, CopiedMode(v, o, CreateMode(v, o, e.mode), e.mode),
          CopiedMtime(v, o, e.mtime))

\* copyFile on a directory entry that does not exist at the destination
EntryCopy(e, v, o) ==
    Entry(e.name, e.data, CopiedMode(v, o, CreateMode(v, o, e.mode), e.mode),
          CopiedMtime(v, o, e.mtime))

\* Path.CopyTo of a local or SFTP source to a local or SFTP destination:
\* p.Exists(), then the routine of the pair with the options o.  same: the
\* connection details of two SFTP paths name one server
\* (sameServer := hostname, port and username are equal).
CopyToCall(o, v, same) ==
    /\ xf.pc = "idle"
    /\ same => v = "sftpsftp"
    /\ xf' = [xf EXCEPT
                !.op = "Copy", !.facade = TRUE, !.variant = v,
                !.sameServer = same,
                !.opts = o, !.asked = o, !.old = disk,
                !.pc = IF Stat(disk["src"]).kind = "none" THEN "done" ELSE "cstat",
                !.err = IF Stat(disk["src"]).kind = "none" THEN "ErrNotExist"
                        ELSE "none"]
    /\ UNCHANGED disk

\* Copy: GetClient, Stat(src) and the test of a directory source
CopyStat ==
    /\ xf.op = "Copy" /\ xf.pc = "cstat"
    /\ UNCHANGED disk
    /\ \/ /\ xf.variant \in SftpVariants
          /\ XfReturn("getClient")
       \/ LET srcInfo == Stat(disk["src"]) IN
            IF srcInfo.kind = "none" THEN XfReturn("stat")
            ELSE IF srcInfo.kind = "dir"
              THEN IF NeedsRecursive(xf.variant) /\ ~xf.opts.Recursive
                     THEN XfReturn("ErrInvalid")
                     ELSE xf' = [xf EXCEPT !.pc = "cmkdir", !.srcInfo = srcInfo,
                                           !.opts.Recursive = TRUE]
            ELSE xf' = [xf EXCEPT !.pc = "copen", !.srcInfo = srcInfo]

\* copyFile of pathlocallocal: "Handle symbolic links",
\* (srcInfo.Mode()&os.ModeSymlink != 0) && !options.FollowSymlinks
CopiesLink(fi, v, o) ==
    fi.target # "" /\ ~o.FollowSymlinks /\ v \in LocalVariants

\* copyFile: open the source, create or truncate the destination;
\* pathsftpsftp on one server: "cp -p src dest" run by the server
CopyOpen ==
    /\ xf.op = "Copy" /\ xf.pc = "copen"
    /\ ~CopiesLink(xf.srcInfo, xf.variant, xf.opts)  \* else: copySymlink
    /\ \/ /\ \E e \in {"open", "create"} : XfReturn(e)
          /\ UNCHANGED disk
       \/ \* sftpmanager.GetSSHSession fails: return &PathError{Op:
          \* "sftp-copy-get-session"}
          /\ xf.sameServer
          /\ xf' = [xf EXCEPT !.pc = Returns, !.err = "getSession",
                              !.fast = "nosession"]
          /\ UNCHANGED disk
       \/ \* session.Run("cp -p src dest") returns nil
          /\ xf.sameServer
          /\ disk["dest"].kind # "dir" /\ ParentExists
          /\ disk' = [disk EXCEPT !["dest"] = disk["src"]]
          /\ xf' = [xf EXCEPT !.pc = Returns, !.err = "none", !.fast = "ok"]
       \/ \* the streaming copy: of two servers, or after a failed cp
          /\ disk["dest"].kind # "dir" /\ ParentExists
          /\ disk' = [disk EXCEPT !["dest"] =
                        File(<< >>,
                             IF disk["dest"].kind = "file" THEN disk["dest"].mode
                             ELSE CreateMode(xf.variant, xf.opts, xf.srcInfo.mode),
                             "now")]
          /\ xf' = [xf EXCEPT !.pc = "ccopy",
                              !.fast = IF xf.sameServer THEN "failed" ELSE @]

\* copyFile: one iteration of the copy loop; no routine removes what it
\* wrote when it fails.  Sync exists where the destination is local.
CopyChunk ==
    /\ xf.op = "Copy" /\ xf.pc = "ccopy"
    /\ LET n == Len(disk["dest"].data) IN
         \/ /\ CtxDone
            /\ XfReturn("ctx")
            /\ UNCHANGED disk
         \/ /\ ~CtxDone
            /\ XfReturn("read")
            /\ UNCHANGED disk
         \/ /\ ~CtxDone
            /\ n < Len(Stat(disk["src"]).data)
            /\ disk' = [disk EXCEPT !["dest"].data =
                                      Append(@, Stat(disk["src"]).data[n + 1])]
            /\ BufferWritten(TRUE, Len(xf.srcInfo.data), n + 1)
         \/ /\ ~CtxDone
            /\ n < Len(Stat(disk["src"]).data)
            /\ XfReturn("write")
            /\ UNCHANGED disk
         \/ /\ ~CtxDone
            /\ n = Len(Stat(disk["src"]).data)
            /\ UNCHANGED disk
            /\ \/ /\ xf.variant \in LocalVariants \cup {"sftplocal", "part_006"}
                  /\ XfReturn("sync")
               \/ xf' = [xf EXCEPT !.pc = "cattrs"]

\* copyFile, copyDir: the Chmod and Chtimes calls that end the routine
CopyAttrs ==
    /\ xf.op = "Copy" /\ xf.pc = "cattrs"
    /\ \/ /\ \E e \in AttrErrors(xf.variant, xf.opts) : XfReturn(e)
          /\ UNCHANGED disk
       \/ /\ disk' = [disk EXCEPT
                        !["dest"].mode = CopiedMode(xf.variant, xf.opts, @,
                                                    xf.srcInfo.mode),
                        !["dest"].mtime = IF PreservesMtime(xf.variant, xf.opts)
                                            THEN xf.srcInfo.mtime ELSE @]
          /\ XfReturn("none")

\* copyDir: MkdirAll(dest), ReadDir(src)
CopyMkdir ==
    /\ xf.op = "Copy" /\ xf.pc = "cmkdir"
    /\ \/ /\ XfReturn("mkdir")
          /\ UNCHANGED disk
       \/ /\ disk["dest"].kind # "file"
          /\ disk' = MkdirAll("dest", MkdirMode(xf.variant, xf.opts, xf.srcInfo.mode))
          /\ \/ XfReturn("readdir")
             \/ xf' = [xf EXCEPT !.pc = "centries",
                                 !.todo = { e.name : e \in disk["src"].entries }]

\* copyDir: one entry copied by copyFile, or the end of the loop
CopyEntry ==
    /\ xf.op = "Copy" /\ xf.pc = "centries"
    /\ IF xf.todo = {}
         THEN /\ xf' = [xf EXCEPT !.pc = "cattrs"]
              /\ UNCHANGED disk
         ELSE \E e \in { f \in disk["src"].entries : f.name \in xf.todo } :
                \/ /\ CtxDone
                   /\ XfReturn("ctx")
                   /\ UNCHANGED disk
                \/ /\ ~CtxDone
                   /\ \E k \in EntryErrors : XfReturn(k)
                   /\ UNCHANGED disk
                \/ /\ ~CtxDone
                   /\ ~CopiesLink(e, xf.variant, xf.opts)
                   /\ e.target # "gone"
                   /\ disk' = [disk EXCEPT !["dest"].entries =
                                 { f \in @ : f.name # e.name } \cup
                                 { EntryCopy([e EXCEPT !.data = Opened(e)],
                                             xf.variant, xf.opts) },
                                           !["dest"].mtime = "now"]
                   /\ xf' = [xf EXCEPT !.todo = @ \ {e.name}]
                \/ \* copySymlink: os.Readlink(src), os.Symlink(target, dest)
                   /\ ~CtxDone
                   /\ CopiesLink(e, xf.variant, xf.opts)
                   /\ IF \E f \in disk["dest"].entries : f.name = e.name
                        THEN /\ XfReturn("symlink")
                             /\ UNCHANGED disk
                        ELSE /\ disk' = [disk EXCEPT
                                           !["dest"].entries =
                                              @ \cup {[LinkEntry(e.name, e.target)
                                                         EXCEPT !.mtime = "now"]},
                                           !["dest"].mtime = "now"]
                             /\ xf' = [xf EXCEPT !.todo = @ \ {e.name}]

\* --------------------------------------------------- copies from a URL
Is2xx(status) == ~(status < 200 \/ status >= 300)

\* Path.CopyTo of a URL source: p.Exists() sends a HEAD request (head: the
\* status of its answer), then pathurllocal.Copy or pathurlsftp.Copy
UrlCopyToCall(o, v, head) ==
    /\ xf.pc = "idle"
    /\ xf' = [xf EXCEPT
                !.op = "UrlCopy", !.facade = TRUE, !.variant = v,
                !.opts = o, !.asked = o, !.old = disk,
                !.pc = IF Is2xx(head) THEN "get" ELSE "done",
                !.err = IF Is2xx(head) THEN "none" ELSE "ErrNotExist"]
    /\ UNCHANGED disk

\* pathurllocal.Copy, pathurlsftp.Copy called with the options o
UrlCopyCall(o, v) ==
    /\ xf.pc = "idle"
    /\ xf' = [xf EXCEPT !.op = "UrlCopy", !.facade = FALSE, !.variant = v,
                        !.opts = o, !.asked = o, !.old = disk, !.pc = "get"]
    /\ UNCHANGED disk

\* Copy: the GET request and the test of the status code
UrlGet(status, length) ==
    /\ xf.op = "UrlCopy" /\ xf.pc = "get"
    /\ UNCHANGED disk
    /\ xf' = [xf EXCEPT
                !.sent = TRUE, !.status = status,
                !.length = IF Is2xx(status) THEN length ELSE 0,
                !.pc = IF Is2xx(status) THEN "umkdir" ELSE "done",
                !.err = IF status = 0 THEN "get"
                        ELSE IF ~Is2xx(status) THEN "HTTPError" ELSE "none",
                !.code = IF status # 0 /\ ~Is2xx(status) THEN status ELSE 0]

\* Copy: (GetClient,) MkdirAll(filepath.Dir(dest))
UrlMkdir ==
    /\ xf.op = "UrlCopy" /\ xf.pc = "umkdir"
    /\ \/ /\ xf.variant = "urlsftp"
          /\ XfReturn("getClient")
          /\ UNCHANGED disk
       \/ /\ XfReturn("mkdir")
          /\ UNCHANGED disk
       \/ /\ disk' = MkdirAll("parent", IF xf.variant = "urlsftp" THEN ServerMode
                                        ELSE xf.opts.Permissions)
          /\ xf' = [xf EXCEPT !.pc = "uopen"]

\* Copy: create or truncate the destination file
UrlOpen ==
    /\ xf.op = "UrlCopy" /\ xf.pc = "uopen"
    /\ \/ /\ XfReturn("create")
          /\ UNCHANGED disk
       \/ /\ disk["dest"].kind # "dir" /\ ParentExists
          /\ disk' = [disk EXCEPT !["dest"] =
                        File(<< >>,
                             IF disk["dest"].kind = "file" THEN disk["dest"].mode
                             ELSE IF xf.variant = "urlsftp" THEN ServerMode
                             ELSE xf.opts.Permissions,
                             "now")]
          /\ xf' = [xf EXCEPT !.pc = "ubody"]

\* Copy: one iteration of the download loop, and what follows the last one:
\* Sync (local) or Chmod(dest, Permissions) (SFTP)
UrlChunk ==
    /\ xf.op = "UrlCopy" /\ xf.pc = "ubody"
    /\ LET n == Len(disk["dest"].data) IN
         \/ /\ CtxDone
            /\ XfReturn("ctx")
            /\ UNCHANGED disk
         \/ /\ ~CtxDone
            /\ XfReturn("read")
            /\ UNCHANGED disk
         \/ /\ ~CtxDone
            /\ n < Len(Body)
            /\ disk' = [disk EXCEPT !["dest"].data = Append(@, Body[n + 1])]
            /\ BufferWritten(xf.length > 0, xf.length, n + 1)
         \/ /\ ~CtxDone
            /\ n < Len(Body)
            /\ XfReturn("write")
            /\ UNCHANGED disk
         \/ /\ ~CtxDone
            /\ n = Len(Body)
            /\ \/ /\ XfReturn(IF xf.variant = "urlsftp" THEN "chmod" ELSE "sync")
                  /\ UNCHANGED disk
               \/ /\ disk' = [disk EXCEPT !["dest"].mode =
                                IF xf.variant = "urlsftp" THEN xf.opts.Permissions
                                ELSE @]
                  /\ XfReturn("none")

\* ------------------------------------------------ moves of the SFTP pairs
\* Move of pathlocalsftp, pathsftplocal and pathsftpsftp: a rename on one
\* server, else Copy followed by the removal of the source.
MoveVariants == {"localsftp", "sftplocal", "sftpsftp"}

\* the Copy routine a Move routine calls (pathsftplocal.Copy: two revisions)
CopyOf(mv) == IF mv = "sftplocal" THEN {"sftplocal", "part_006"} ELSE {mv}

\* Path.MoveTo on a pair with an SFTP path: p.Exists(), dest.Exists() &&
\* !overwrite, then the routine of the pair called with overwrite alone
SftpMoveToCall(overwrite, mv, cv, same) ==
    /\ xf.pc = "idle"
    /\ cv \in CopyOf(mv)
    /\ same => mv = "sftpsftp"
    /\ xf' = [xf EXCEPT
                !.op = "SftpMove", !.facade = TRUE, !.overwrite = overwrite,
                !.move = mv, !.variant = cv, !.sameServer = same,
                !.opts = DefaultCopyOptions, !.asked = DefaultCopyOptions,
                !.old = disk,
                !.pc = IF \/ disk["src"].kind = "none"
                          \/ (disk["dest"].kind # "none" /\ ~overwrite)
                         THEN "done" ELSE "mprep",
                !.err = IF disk["src"].kind = "none" THEN "ErrNotExist"
                        ELSE IF disk["dest"].kind # "none" /\ ~overwrite
                          THEN "ErrExist"
                        ELSE "none"]
    /\ UNCHANGED disk

\* the Move routine of an SFTP pair called with the options o
SftpMoveCall(overwrite, o, mv, cv, same) ==
    /\ xf.pc = "idle"
    /\ cv \in CopyOf(mv)
    /\ same => mv = "sftpsftp"
    /\ xf' = [xf EXCEPT
                !.op = "SftpMove", !.facade = FALSE, !.overwrite = overwrite,
                !.move = mv, !.variant = cv, !.sameServer = same,
                !.opts = o, !.asked = o, !.old = disk, !.pc = "mprep"]
    /\ UNCHANGED disk

\* Move: GetClient, Stat(src), and for a local end the test of dest
SftpMoveStart ==
    /\ xf.op = "SftpMove" /\ xf.pc = "mprep"
    /\ UNCHANGED disk
    /\ \/ XfReturn("getClient")
       \/ IF disk["src"].kind = "none" THEN XfReturn("stat")
          ELSE IF xf.move = "sftpsftp"
            THEN xf' = [xf EXCEPT !.srcInfo = disk["src"],
                                  !.pc = IF xf.sameServer THEN "mparent"
                                         ELSE "mcopy"]
          ELSE IF DestExistsNoOverwrite THEN XfReturn("alreadyExists")
          ELSE xf' = [xf EXCEPT
                        !.srcInfo = disk["src"],
                        !.pc = IF xf.move = "localsftp"
                                  /\ disk["dest"].kind # "none"
                                 THEN "mremove" ELSE "mparent"]

\* client.Remove(dest) succeeds: "Remove existing destination"
DestRemoved == [disk EXCEPT !["dest"] = NoNode]

\* Move of pathlocalsftp, and of pathsftpsftp on one server:
\* client.Remove(dest) when dest exists and overwrite is true
SftpMoveRemoveDest ==
    /\ xf.op = "SftpMove" /\ xf.pc = "mremove"
    /\ \/ /\ XfReturn("sftp-remove")
          /\ UNCHANGED disk
       \/ /\ \/ disk["dest"].kind = "file"
             \/ disk["dest"].kind = "dir" /\ disk["dest"].entries = {}
          /\ disk' = DestRemoved
          /\ xf' = [xf EXCEPT !.pc = IF xf.move = "localsftp" THEN "mparent"
                                      ELSE "mrename"]

\* Move: MkdirAll(filepath.Dir(dest)); pathsftpsftp on one server goes on
\* with Stat(dest) and the test of overwrite
SftpMoveMkdirParent ==
    /\ xf.op = "SftpMove" /\ xf.pc = "mparent"
    /\ \/ /\ XfReturn("mkdir")
          /\ UNCHANGED disk
       \/ /\ disk' = [disk EXCEPT !["parent"] =
                        IF @.kind = "dir" THEN @
                        ELSE Dir({}, IF xf.move = "sftplocal"
                                       THEN xf.opts.Permissions ELSE ServerMode,
                                 "now")]
          /\ IF xf.move # "sftpsftp" THEN xf' = [xf EXCEPT !.pc = "mcopy"]
             ELSE IF disk["dest"].kind = "none"
               THEN xf' = [xf EXCEPT !.pc = "mrename"]
             ELSE IF ~xf.overwrite THEN XfReturn("alreadyExists")
             ELSE xf' = [xf EXCEPT !.pc = "mremove"]

\* Move of pathsftpsftp on one server: clientSrc.Rename(src, dest)
SftpMoveRename ==
    /\ xf.op = "SftpMove" /\ xf.pc = "mrename"
    /\ \/ /\ XfReturn("sftp-rename")
          /\ UNCHANGED disk
       \/ /\ disk["dest"].kind = "none" /\ ParentExists
          /\ disk' = [disk EXCEPT !["dest"] = disk["src"], !["src"] = NoNode]
          /\ XfReturn("none")

\* Move: "Copy the file/directory": Copy(src, dest, details, opts...)
SftpMoveCopy ==
    /\ xf.op = "SftpMove" /\ xf.pc = "mcopy"
    /\ xf' = [xf EXCEPT !.op = "Copy", !.pc = "cstat", !.sameServer = FALSE]
    /\ UNCHANGED disk

\* (variant: the result of Copy is not looked at)
CopyErrorIgnored == FALSE

\* Move: "if err := Copy(...); err != nil"
CopyFailed == xf.err # "none"

\* Move: Copy has returned; its error is wrapped and returned
SftpMoveCopied ==
    /\ xf.op = "Copy" /\ xf.pc = "copied"
    /\ xf' = [xf EXCEPT
                !.op = "SftpMove",
                !.pc = IF CopyFailed THEN "done" ELSE "mrmsrc",
                !.err = IF xf.err # "none" THEN "move-copy" ELSE "none"]
    /\ UNCHANGED disk

\* Move: "After successful copy, delete the source"
SftpMoveRemoveSrc ==
    /\ xf.op = "SftpMove" /\ xf.pc = "mrmsrc"
    /\ \/ /\ RemoveAllSrc
          /\ XfReturn("none")
       \/ /\ XfReturn("remove-src")
          /\ UNCHANGED disk

\* ------------------------------------------------------------- MakeDir
\* MakeDir finds a directory at the path: "if existsOk { return nil }",
\* else the error e
DirExistsIgnoresFlag(existsOk, e) == e
DirExists(existsOk, e) == IF existsOk THEN "none" ELSE e

\* pathlocal.MakeDir(dest, parents, existsOk), which Path.MakeDir returns
\* the result of
MakeDir(parents, existsOk) ==
    /\ xf.pc = "idle"
    /\ LET ret(e) == xf' = [xf EXCEPT !.op = "MakeDir", !.old = disk,
                                      !.variant = "local", !.parents = parents,
                                      !.existsOk = existsOk,
                                      !.pc = "done", !.err = e]
       IN  IF disk["dest"].kind = "dir"
             THEN /\ ret(DirExists(existsOk, "local-mkdir-exists"))
                  /\ UNCHANGED disk
           ELSE IF disk["dest"].kind = "file"
             THEN /\ ret("local-mkdir-notdir")
                  /\ UNCHANGED disk
           ELSE \/ /\ ret("local-mkdir-stat")
                   /\ UNCHANGED disk
                \/ /\ ~parents
                   /\ IF ParentExists
                        THEN \/ /\ disk' = [disk EXCEPT !["dest"] = Dir({}, "0755", "now")]
                                /\ ret("none")
                             \/ /\ ret("local-mkdir")
                                /\ UNCHANGED disk
                        ELSE /\ ret("local-mkdir")
                             /\ UNCHANGED disk
                \/ /\ parents
                   /\ \/ /\ disk' = MkdirAll("dest", "0755")
                         /\ ret("none")
                      \/ /\ ret("local-mkdir-all")
                         /\ UNCHANGED disk

\* pathlocal.MakeDir called by several goroutines: os.Stat and os.Mkdir /
\* os.MkdirAll are two system calls, and another goroutine can run between
\* them.  MakeDirStat is the call up to the result of os.Stat.
MakeDirStat(g, parents, existsOk) ==
    /\ xf.calls[g].pc = "idle"
    /\ UNCHANGED disk
    /\ LET call(at, e) ==
             xf' = [xf EXCEPT !.calls[g] =
                      [NoFileCall EXCEPT !.op = "MakeDir", !.variant = "local",
                                         !.parents = parents,
                                         !.existsOk = existsOk,
                                         !.pc = at, !.err = e]]
       IN  IF disk["dest"].kind = "dir"
             THEN call("done", DirExists(existsOk, "local-mkdir-exists"))
           ELSE IF disk["dest"].kind = "file"
             THEN call("done", "local-mkdir-notdir")
           ELSE \/ call("done", "local-mkdir-stat")
                \/ call("mkdir", "none")

\* os.Mkdir(path, 0755) finds the path in existence: EEXIST, returned as
\* &fs.PathError{Op: "local-mkdir"} whatever existsOk is
MkdirExists(existsOk) == "local-mkdir-eexist"

\* pathlocal.MakeDir after os.Stat found nothing: os.Mkdir or os.MkdirAll
MakeDirCreate(g) ==
    /\ xf.calls[g].op = "MakeDir" /\ xf.calls[g].pc = "mkdir"
    /\ LET c == xf.calls[g]
           ret(e) == xf' = [xf EXCEPT !.calls[g].pc = "done", !.calls[g].err = e]
       IN  IF ~c.parents
             THEN IF disk["dest"].kind # "none"
                    THEN /\ ret(MkdirExists(c.existsOk))
                         /\ UNCHANGED disk
                  ELSE IF ~ParentExists
                    THEN /\ ret("local-mkdir")
                         /\ UNCHANGED disk
                  ELSE \/ /\ disk' = [disk EXCEPT !["dest"] = Dir({}, "0755", "now")]
                          /\ ret("none")
                       \/ /\ ret("local-mkdir")
                          /\ UNCHANGED disk
             ELSE IF disk["dest"].kind = "file"
                    THEN /\ ret("local-mkdir-all")
                         /\ UNCHANGED disk
                  ELSE \/ /\ disk' = MkdirAll("dest", "0755")
                          /\ ret("none")
                       \/ /\ ret("local-mkdir-all")
                          /\ UNCHANGED disk

\* pathsftp.MakeDir(dest, parents, existsOk, conn).  With parents the loop
\* runs over filepath.SplitList(path), the elements of a list separated by
\* ":": for a path without ":" its one element is the path itself, so the
\* loop is one client.Mkdir(path), which fails when the parent is missing.
SftpMakeDir(parents, existsOk) ==
    /\ xf.pc = "idle"
    /\ LET ret(e) == xf' = [xf EXCEPT !.op = "MakeDir", !.old = disk,
                                      !.variant = "sftp", !.parents = parents,
                                      !.existsOk = existsOk,
                                      !.pc = "done", !.err = e]
           mkdir(e) == IF ParentExists
                         THEN \/ /\ disk' = [disk EXCEPT
                                      !["dest"] = Dir({}, ServerMode, "now")]
                                 /\ ret("none")
                              \/ /\ ret(e)
                                 /\ UNCHANGED disk
                         ELSE /\ ret(e)
                              /\ UNCHANGED disk
       IN  \/ /\ ret("sftp-mkdir-get-client")
              /\ UNCHANGED disk
           \/ IF disk["dest"].kind = "dir"
                THEN /\ ret(DirExists(existsOk, "sftp-mkdir-exists"))
                     /\ UNCHANGED disk
              ELSE IF disk["dest"].kind = "file"
                THEN /\ ret("sftp-mkdir-notdir")
                     /\ UNCHANGED disk
              ELSE \/ /\ ret("sftp-mkdir-stat")
                      /\ UNCHANGED disk
                   \/ /\ ~parents
                      /\ mkdir("sftp-mkdir")
                   \/ /\ parents
                      /\ mkdir("sftp-mkdir-all")

\* the caller has the result of MakeDir and goes on
MakeDirReturn ==
    /\ xf.op = "MakeDir"
    /\ xf.pc = "done"
    /\ xf' = [xf EXCEPT !.pc = "idle"]
    /\ UNCHANGED disk

\* -------------------------------------------------------- text and bytes
\* A text is a sequence of code points; a negative element is a byte of the
\* Go string that is not valid UTF-8 (InvalidByte is 0xFF).  A byte is a
\* number in 0..255.
InvalidByte == 0 - 255
RuneError == 65533

\* the names ianaindex.IANA.Encoding knows, in the model
Encodings == {"utf-8", "iso-8859-1", "utf-16le"}

\* the bytes an encoder writes for one element of the text, << >> when it
\* stops with an error: unicode.UTF8 refuses invalid UTF-8,
\* charmap.ISO8859_1 refuses invalid UTF-8 and code points above 255, the
\* UTF-16 encoder writes U+FFFD for invalid UTF-8
EncodeRune(r, enc) ==
    CASE enc = "utf-8" ->
           IF r < 0 THEN << >>
           ELSE IF r < 128 THEN <<r>>
           ELSE IF r < 2048 THEN <<192 + (r \div 64), 128 + (r % 64)>>
           ELSE <<224 + (r \div 4096), 128 + ((r \div 64) % 64), 128 + (r % 64)>>
      [] enc = "iso-8859-1" ->
           IF r < 0 \/ r > 255 THEN << >> ELSE <<r>>
      [] OTHER ->
           LET c == IF r < 0 THEN RuneError ELSE r IN <<c % 256, c \div 256>>

\* encoder.Bytes([]byte(content)): the error, or the bytes
RECURSIVE EncoderBytes(_, _)
EncoderBytes(text, enc) ==
    IF text = << >> THEN [ok |-> TRUE, bytes |-> << >>]
    ELSE LET first == EncodeRune(Head(text), enc)
             rest  == EncoderBytes(Tail(text), enc)
         IN  IF first = << >> \/ ~rest.ok THEN [ok |-> FALSE, bytes |-> << >>]
             ELSE [ok |-> TRUE, bytes |-> first \o rest.bytes]

\* decoder.Bytes(encoded): the decoders put U+FFFD for what they cannot
\* decode and return no error
RECURSIVE DecoderBytes(_, _)
DecoderBytes(b, enc) ==
    IF b = << >> THEN << >>
    ELSE LET cont(i) == i <= Len(b) /\ b[i] >= 128 /\ b[i] < 192
             rest(n) == DecoderBytes(SubSeq(b, n + 1, Len(b)), enc)
         IN  CASE enc = "utf-8" ->
                    IF b[1] < 128 THEN <<b[1]>> \o rest(1)
                    ELSE IF b[1] >= 194 /\ b[1] < 224 /\ cont(2)
                      THEN <<(b[1] - 192) * 64 + (b[2] - 128)>> \o rest(2)
                    ELSE IF b[1] >= 224 /\ b[1] < 240 /\ cont(2) /\ cont(3)
                      THEN <<(b[1] - 224) * 4096 + (b[2] - 128) * 64 + (b[3] - 128)>>
                           \o rest(3)
                    ELSE <<RuneError>> \o rest(1)
               [] enc = "iso-8859-1" -> <<b[1]>> \o rest(1)
               [] OTHER ->
                    IF Len(b) = 1 THEN <<RuneError>>
                    ELSE <<b[1] + 256 * b[2]>> \o rest(2)

\* the versions of WriteText: pathlocal (writetext.go), the pathlocal of
\* part_013, which writes what the encoder returns without decoding it
\* back, and pathsftp
WriteVariants == {"writetext.go", "part_013", "sftp"}
ReadVariants == {"local", "sftp"}

\* the Op of the PathError a file operation returns at one of its stages
FileErr(v, op, stage) ==
    <<IF v = "sftp" THEN "sftp" ELSE "local",
      IF op \in {"WriteText", "WriteBytes"} THEN "write" ELSE "read", stage>>

\* a call of goroutine g ends its first stage
FileCall(g, op, v, text, enc, at, buf, out, e) ==
    xf' = [xf EXCEPT !.calls[g] =
             [op |-> op, pc |-> at, variant |-> v, text |-> text, enc |-> enc,
              buf |-> buf, out |-> out, err |-> e, parents |-> FALSE,
              existsOk |-> FALSE]]

\* decoded, err = decoder.Bytes(encoded); string(decoded) != content
RoundTripSkipped(text, enc) == FALSE
RoundTripFails(text, enc) ==
    DecoderBytes(EncoderBytes(text, enc).bytes, enc) # text

\* WriteText(dest, text, enc) up to os.Create / client.Create: GetClient
\* (pathsftp), the encoding, encoder.Bytes, the decoding back
WriteTextCall(g, text, enc, v) ==
    /\ xf.calls[g].pc = "idle"
    /\ LET ret(stage) == FileCall(g, "WriteText", v, text, enc, "done", << >>,
                                  << >>, FileErr(v, "WriteText", stage))
       IN  \/ /\ v = "sftp"
              /\ ret("get-client")
           \/ IF enc \notin Encodings THEN ret("get-encoding")
              ELSE IF ~EncoderBytes(text, enc).ok THEN ret("encode")
              ELSE IF v # "part_013" /\ RoundTripFails(text, enc)
                THEN ret("validate")
              ELSE FileCall(g, "WriteText", v, text, enc, "create",
                            EncoderBytes(text, enc).bytes, << >>, "none")
    /\ UNCHANGED disk

\* WriteBytes(dest, data) up to os.OpenFile / client.Create
WriteBytesCall(g, data, v) ==
    /\ xf.calls[g].pc = "idle"
    /\ \/ /\ v = "sftp"
          /\ FileCall(g, "WriteBytes", v, data, "", "done", << >>, << >>,
                      FileErr(v, "WriteBytes", "get-client"))
       \/ FileCall(g, "WriteBytes", v, data, "", "create", data, << >>, "none")
    /\ UNCHANGED disk

\* what os.Create and os.OpenFile(O_WRONLY|O_CREATE|O_TRUNC) leave of the
\* file: nothing
TruncateSkipped(data) == data
Truncated(data) == << >>

\* os.Create(dest), os.OpenFile(dest, O_WRONLY|O_CREATE|O_TRUNC, 0666),
\* client.Create(dest): the file is created, or emptied
WriteCreate(g) ==
    /\ xf.calls[g].pc = "create"
    /\ LET c == xf.calls[g] IN
         \/ /\ ParentExists
            /\ disk["dest"].kind # "dir"
            /\ disk' = [disk EXCEPT !["dest"] =
                          IF @.kind = "file"
                            THEN [@ EXCEPT !.data = Truncated(@), !.mtime = "now"]
                            ELSE File(<< >>,
                                      IF c.variant = "sftp" THEN ServerMode
                                      ELSE DefaultPermissions, "now")]
            /\ xf' = [xf EXCEPT !.calls[g].pc = "write"]
         \/ /\ xf' = [xf EXCEPT !.calls[g].pc = "done",
                                 !.calls[g].err = FileErr(c.variant, c.op, "create")]
            /\ UNCHANGED disk

\* writer.Write / io.Copy and writer.Flush: the bytes go to the file from
\* the offset of this descriptor, 0; what the file holds beyond them stays
WriteFlush(g) ==
    /\ xf.calls[g].pc = "write"
    /\ LET c   == xf.calls[g]
           old == disk["dest"].data
       IN  \/ /\ disk["dest"].kind = "file"
              /\ disk' = [disk EXCEPT !["dest"].data =
                            c.buf \o SubSeq(old, Len(c.buf) + 1, Len(old)),
                                      !["dest"].mtime = "now"]
              /\ xf' = [xf EXCEPT !.calls[g].pc = "done"]
           \/ /\ xf' = [xf EXCEPT !.calls[g].pc = "done",
                                   !.calls[g].err = FileErr(c.variant, c.op, "flush")]
              /\ UNCHANGED disk

\* ReadText(dest, enc): the encoding, Open, Stat, io.ReadAll, decoder.Bytes
ReadText(g, enc, v) ==
    /\ xf.calls[g].pc = "idle"
    /\ LET ret(out, e) == FileCall(g, "ReadText", v, xf.calls[g].text, enc, "done",
                                   << >>, out, e)
           fail(stage) == ret(<< >>, FileErr(v, "ReadText", stage))
       IN  \/ /\ v = "sftp"
              /\ fail("get-client")
           \/ IF enc \notin Encodings THEN fail("get-encoding")
              ELSE IF disk["dest"].kind = "none" THEN fail("open")
              ELSE IF disk["dest"].kind = "dir" THEN fail("read-all")
              ELSE \/ ret(DecoderBytes(disk["dest"].data, enc), "none")
                   \/ fail("read-all")
    /\ UNCHANGED disk

\* ReadBytes(dest): Open, Stat, io.ReadAll
ReadBytes(g, v) ==
    /\ xf.calls[g].pc = "idle"
    /\ LET ret(out, e) == FileCall(g, "ReadBytes", v, xf.calls[g].text, "", "done",
                                   << >>, out, e)
           fail(stage) == ret(<< >>, FileErr(v, "ReadBytes", stage))
       IN  \/ /\ v = "sftp"
              /\ fail("get-client")
           \/ IF disk["dest"].kind = "none" THEN fail("open")
              ELSE IF disk["dest"].kind = "dir" THEN fail("read-all")
              ELSE \/ ret(disk["dest"].data, "none")
                   \/ fail("read-all")
    /\ UNCHANGED disk

\* the caller has the result of the call of g and goes on; the record keeps
\* the last call
FileReturn(g) ==
    /\ xf.calls[g].pc = "done"
    /\ xf' = [xf EXCEPT !.calls[g].pc = "idle"]
    /\ UNCHANGED disk

\* the texts, encoding names and byte buffers of the calls: "", "A",
\* "A\u00e9", "\u20ac", "A\xff"
TextInputs == { << >>, <<65>>, <<65, 233>>, <<8364>>, <<65, InvalidByte>> }
EncodingInputs == Encodings \cup {"bogus"}
BytesInputs == { << >>, <<0>>, <<255, 254>> }

\* The type of the error value a routine returns.  ctx.Err() is a
\* context error, os.RemoveAll returns the os package's *fs.PathError, and
\* pathlocal.MakeDir builds *fs.PathError values; everything else is
\* built as &pathmodels.PathError{...}.
ErrorType(e) ==
    CASE e = "ctx" -> "context"
      [] e = "removeAll" -> "fs.PathError"
      [] e \in {"local-mkdir-exists", "local-mkdir-notdir", "local-mkdir-stat",
                "local-mkdir", "local-mkdir-all", "local-mkdir-eexist"}
           -> "fs.PathError"
      [] OTHER -> "pathmodels.PathError"

\* One caller of a running manager: every kind of ConnectionDetails, the
\* clock, the idle sweep and connections dropped by the server.
Next ==
    /\ \/ Calls({"p1"}, DetailsInputs(Keys, {0, 1}))
       \/ CleanupTick
       \/ \E s \in 1..MaxSessions : ServerDrop(s)
       \/ Tick
    /\ UNCHANGED <<pathVars, fsVars>>

Spec == Init /\ [][Next]_vars

\* One caller after another on one account, with and without its password.
NextAuth ==
    /\ \/ Calls({"p1"}, PasswordInputs({"k1"}, {0, 1}))
       \/ \E s \in 1..MaxSessions : ServerDrop(s)
       \/ Tick
    /\ UNCHANGED <<pathVars, fsVars>>

SpecAuth == Init /\ [][NextAuth]_vars

\* Two concurrent callers of a running manager whose server keeps every
\* connection up.
NextConc ==
    /\ \/ Calls(Procs, DetailsInputs(Keys, {1}))
       \/ Tick
    /\ UNCHANGED <<pathVars, fsVars>>

SpecConc == Init /\ [][NextConc]_vars

\* One caller, the keep-alive pings and connections dropped by the server.
NextKeepAlive ==
    /\ \/ Calls({"p1"}, DetailsInputs({"k1"}, {1}))
       \/ \E s \in 1..MaxSessions : KeepAlivePing(s)
       \/ \E s \in 1..MaxSessions : ServerDrop(s)
       \/ Tick
    /\ UNCHANGED <<pathVars, fsVars>>

SpecKeepAlive == Init /\ [][NextKeepAlive]_vars

\* One caller and the manager's whole life cycle: the background
\* goroutines and Close().
NextClose ==
    /\ \/ Calls({"p1"}, DetailsInputs({"k1"}, {1}))
       \/ CleanupTick
       \/ CleanupStop
       \/ \E s \in 1..MaxSessions : KeepAlivePing(s)
       \/ \E s \in 1..MaxSessions : KeepAliveStop(s)
       \/ CloseSignal
       \/ CloseFinish
       \/ Tick
    /\ UNCHANGED <<pathVars, fsVars>>

SpecClose == Init /\ [][NextClose]_vars

\* The Path facade: operations and SetPath calls on two paths.
NextPath ==
    /\ \/ \E op \in PathOps : \E ow \in BOOLEAN : PathOp(op, ow)
       \/ \E raw \in RawInputs : SetPathSrc(raw)
       \/ \E raw \in RawInputs : SetPathDst(raw)
    /\ UNCHANGED <<mgrVars, procVars, fsVars>>

SpecPath == InitPath /\ [][NextPath]_vars

\* Path values: New, the methods returning a Path, SetPath on what they return
NextValue ==
    /\ \/ \E in \in NewInputs : NewCall(in[1], in[2])
       \/ \E arg \in JoinInputs : JoinCall(arg)
       \/ ParentCall
       \/ CopyCall
       \/ \E raw \in RawInputs : SetPathReturned(raw)
    /\ UNCHANGED <<mgrVars, procVars, fsVars>>

SpecValue == InitValue /\ [][NextValue]_vars

\* Transfers and MakeDir: one call on a file system holding a source and
\* possibly a destination.
InitTransfer ==
    /\ MgrInit([MaxIdleTime |-> 0, MaxConnections |-> 0])
    /\ PathIdle
    /\ disk \in [Nodes -> SrcInputs \cup DestInputs \cup ParentInputs]
    /\ disk["src"] \in SrcInputs
    /\ disk["dest"] \in DestInputs
    /\ disk["tmp"] = NoNode
    /\ disk["parent"] \in ParentInputs
    /\ disk["dest"].kind # "none" => disk["parent"].kind = "dir"
    /\ xf = NoCallXf

NextTransfer ==
    /\ \/ \E ow \in BOOLEAN, ds \in BOOLEAN, xd \in BOOLEAN : MoveToCall(ow, ds, xd)
       \/ \E ow \in BOOLEAN, xd \in BOOLEAN : \E o \in OptionInputs : MoveCall(ow, o, xd)
       \/ MoveStat
       \/ MoveRename
       \/ MoveOpen
       \/ MoveChunk
       \/ MoveRenameTmp
       \/ MoveChtimes
       \/ MoveRemoveSrc
       \/ MoveMkdir
       \/ MoveEntry
       \/ \E o \in OptionInputs, v \in CopyVariants, same \in BOOLEAN :
             CopyToCall(o, v, same)
       \/ CopyStat
       \/ CopyOpen
       \/ CopyChunk
       \/ CopyAttrs
       \/ CopyMkdir
       \/ CopyEntry
       \/ \E o \in OptionInputs, v \in UrlVariants, h \in StatusInputs :
             UrlCopyToCall(o, v, h)
       \/ \E o \in OptionInputs, v \in UrlVariants : UrlCopyCall(o, v)
       \/ \E st \in StatusInputs, len \in LengthInputs : UrlGet(st, len)
       \/ UrlMkdir
       \/ UrlOpen
       \/ UrlChunk
       \/ \E ps \in BOOLEAN, ok \in BOOLEAN : MakeDir(ps, ok)
       \/ \E ps \in BOOLEAN, ok \in BOOLEAN : SftpMakeDir(ps, ok)
       \/ Expire
    /\ UNCHANGED <<mgrVars, procVars, pathVars>>

SpecTransfer == InitTransfer /\ [][NextTransfer]_vars

\* ---------------------------------------------------------- buffer size
\* helpers.GetOptimalBufferSize(fileSize), with cpuCount the value of
\* runtime.GOMAXPROCS(0)
BaseSize == 4 * 1024
MaxSize == 1 * 1024 * 1024
GetOptimalBufferSize(fileSize, cpuCount) ==
    IF fileSize < BaseSize THEN fileSize
    ELSE LET scaledSize == BaseSize * cpuCount IN
           IF scaledSize > MaxSize THEN MaxSize ELSE scaledSize

\* the sizes of sources (-1: the ContentLength of an answer that does not
\* tell it) and the numbers of CPUs
SizeInputs ==
    {0 - 1, 0, 1, 100, BaseSize - 1, BaseSize, BaseSize + 1, MaxSize,
     MaxSize + 1, 1000000000}
CpuInputs == {1, 2, 3, 4, 8, 16, 64, 255, 256, 257, 1024}

\* a transfer routine computes the size of its buffer:
\* bufferSize := helpers.GetOptimalBufferSize(srcInfo.Size())
BufferSizeCall ==
    /\ xf.pc = "idle"
    /\ xf' = [xf EXCEPT
                !.op = "GetOptimalBufferSize", !.pc = "done",
                !.bufferSize = GetOptimalBufferSize(xf.length, xf.cpuCount)]
    /\ UNCHANGED disk

InitBuffer ==
    /\ MgrInit([MaxIdleTime |-> 0, MaxConnections |-> 0])
    /\ PathIdle
    /\ disk = [n \in Nodes |-> NoNode]
    /\ \E size \in SizeInputs, cpus \in CpuInputs :
         xf = [NoCallXf EXCEPT !.length = size, !.cpuCount = cpus]

NextBuffer ==
    /\ BufferSizeCall
    /\ UNCHANGED <<mgrVars, procVars, pathVars>>

SpecBuffer == InitBuffer /\ [][NextBuffer]_vars

\* what the name dest + ".tmp" holds before a move: nothing, or a file of
\* its own
TmpInputs == { NoNode, File(<<9>>, "0644", "t0") }

\* Moves: Path.MoveTo on every pair of backends, one call on a file system
\* that holds a source and possibly a destination and a file dest + ".tmp".
InitMove ==
    /\ MgrInit([MaxIdleTime |-> 0, MaxConnections |-> 0])
    /\ PathIdle
    /\ disk \in [Nodes -> SrcInputs \cup DestInputs \cup ParentInputs \cup TmpInputs]
    /\ disk["src"] \in SrcInputs
    /\ disk["dest"] \in DestInputs
    /\ disk["tmp"] \in TmpInputs
    /\ disk["parent"] \in ParentInputs
    /\ (disk["dest"].kind # "none" \/ disk["tmp"].kind # "none")
         => disk["parent"].kind = "dir"
    /\ xf = NoCallXf

NextMove ==
    /\ \/ \E ow \in BOOLEAN, ds \in BOOLEAN, xd \in BOOLEAN : MoveToCall(ow, ds, xd)
       \/ \E ow \in BOOLEAN, xd \in BOOLEAN : \E o \in OptionInputs : MoveCall(ow, o, xd)
       \/ MoveStat
       \/ MoveRename
       \/ MoveOpen
       \/ MoveChunk
       \/ MoveRenameTmp
       \/ MoveChtimes
       \/ MoveRemoveSrc
       \/ MoveMkdir
       \/ MoveEntry
       \/ \E ow \in BOOLEAN, mv \in MoveVariants, cv \in SftpVariants,
             same \in BOOLEAN : SftpMoveToCall(ow, mv, cv, same)
       \/ \E ow \in BOOLEAN, mv \in MoveVariants, cv \in SftpVariants,
             same \in BOOLEAN :
             \E o \in OptionInputs : SftpMoveCall(ow, o, mv, cv, same)
       \/ SftpMoveStart
       \/ SftpMoveRemoveDest
       \/ SftpMoveMkdirParent
       \/ SftpMoveRename
       \/ SftpMoveCopy
       \/ CopyStat
       \/ CopyOpen
       \/ CopyChunk
       \/ CopyAttrs
       \/ CopyMkdir
       \/ CopyEntry
       \/ SftpMoveCopied
       \/ SftpMoveRemoveSrc
       \/ Expire
    /\ UNCHANGED <<mgrVars, procVars, pathVars>>

SpecMove == InitMove /\ [][NextMove]_vars

\* Local copies of symbolic links: the source is a link, or a directory that
\* holds one; the destination is missing or a directory.
SymlinkSrcInputs ==
    { Symlink(t) : t \in LinkTargets } \cup
    { Dir({LinkEntry("l", t), Entry("x", <<1>>, "0600", "t1")}, "0755", "t1") :
        t \in LinkTargets }
InitSymlink ==
    /\ MgrInit([MaxIdleTime |-> 0, MaxConnections |-> 0])
    /\ PathIdle
    /\ disk \in [Nodes -> SymlinkSrcInputs \cup DestInputs \cup ParentInputs]
    /\ disk["src"] \in SymlinkSrcInputs
    /\ disk["dest"] \in { n \in DestInputs : n.kind # "file" }
    /\ disk["tmp"] = NoNode
    /\ disk["parent"] = Dir({}, "0755", "t0")
    /\ xf = NoCallXf

NextSymlink ==
    /\ \/ \E o \in SymlinkOptionInputs, v \in LocalVariants :
             CopyToCall(o, v, FALSE)
       \/ CopyStat
       \/ CopyOpen
       \/ CopyChunk
       \/ CopyAttrs
       \/ CopyMkdir
       \/ CopyEntry
       \/ Expire
    /\ UNCHANGED <<mgrVars, procVars, pathVars>>

SpecSymlink == InitSymlink /\ [][NextSymlink]_vars

\* One call after another on one path: the reads and writes of goroutine g1.
InitFile ==
    /\ MgrInit([MaxIdleTime |-> 0, MaxConnections |-> 0])
    /\ PathIdle
    /\ disk \in [Nodes -> DestInputs \cup ParentInputs]
    /\ disk["src"] = NoNode
    /\ disk["dest"] \in DestInputs
    /\ disk["tmp"] = NoNode
    /\ disk["parent"] \in ParentInputs
    /\ disk["dest"].kind # "none" => disk["parent"].kind = "dir"
    /\ xf = NoCallXf

\* the calls of goroutine g
FileCalls(g) ==
    \/ \E t \in TextInputs, e \in EncodingInputs, v \in WriteVariants :
          WriteTextCall(g, t, e, v)
    \/ \E b \in BytesInputs, v \in ReadVariants : WriteBytesCall(g, b, v)
    \/ WriteCreate(g)
    \/ WriteFlush(g)
    \/ \E e \in EncodingInputs, v \in ReadVariants : ReadText(g, e, v)
    \/ \E v \in ReadVariants : ReadBytes(g, v)
    \/ FileReturn(g)

NextFile ==
    /\ FileCalls("g1")
    /\ UNCHANGED <<mgrVars, procVars, pathVars>>

SpecFile == InitFile /\ [][NextFile]_vars

\* the texts of the concurrent writers: "A" and "\u20ac"
WriterTexts == { <<65>>, <<8364>> }

\* Two goroutines, each with one WriteText of the same path, on a directory
\* that exists.
InitWriters ==
    /\ InitFile
    /\ disk["parent"].kind = "dir"
    /\ disk["dest"].kind # "dir"

NextWriters ==
    /\ \E g \in Goroutines :
         \/ \E t \in WriterTexts, e \in EncodingInputs, v \in WriteVariants :
               WriteTextCall(g, t, e, v)
         \/ WriteCreate(g)
         \/ WriteFlush(g)
    /\ UNCHANGED <<mgrVars, procVars, pathVars>>

SpecWriters == InitWriters /\ [][NextWriters]_vars

\* MakeDir called again and again on one path, on either backend.
NextMakeDir ==
    /\ \/ \E ps \in BOOLEAN, ok \in BOOLEAN : MakeDir(ps, ok)
       \/ \E ps \in BOOLEAN, ok \in BOOLEAN : SftpMakeDir(ps, ok)
       \/ MakeDirReturn
    /\ UNCHANGED <<mgrVars, procVars, pathVars>>

SpecMakeDir == InitFile /\ [][NextMakeDir]_vars

\* Goroutines that call MakeDir on one local path that does not exist at
\* first, in a directory that does or does not.
InitMakers ==
    /\ InitFile
    /\ disk["dest"].kind = "none"

NextMakers ==
    /\ \E g \in Goroutines :
         \/ \E ps \in BOOLEAN, ok \in BOOLEAN : MakeDirStat(g, ps, ok)
         \/ MakeDirCreate(g)
         \/ FileReturn(g)
    /\ UNCHANGED <<mgrVars, procVars, pathVars>>

SpecMakers == InitMakers /\ [][NextMakers]_vars



\* Go's select takes the m.done case once the channel is closed: a closed
\* channel stays ready, so the goroutine cannot wait on it forever.
SpecCloseFair ==
    /\ SpecClose
    /\ WF_vars(CleanupStop /\ UNCHANGED <<pathVars, fsVars>>)
    /\ \A s \in 1..MaxSessions : WF_vars(KeepAliveStop(s) /\ UNCHANGED <<pathVars, fsVars>>)

\* ------------------------------------------------------------------ claims
\* a step of caller p
StepOf(p) ==
    \/ pc'[p] # pc[p]
    \/ attempt'[p] # attempt[p]
    \/ dials'[p] # dials[p]

\* C1: GetClient fails with the pool-limit error if and only if the pool
\* already holds MaxConnections sessions and none of them is keyed by the
\* request's key; a rejected request leaves the pool and the sessions as
\* they were.
C1_PoolLimitIffFullAndNoMatch ==
    [][\A p \in Procs :
         pc[p] = "check" /\ StepOf(p) =>
           /\ res'[p] = "poolLimit" <=>
                (PoolLen >= config.MaxConnections /\ clients[det[p].key].id = 0)
           /\ res'[p] = "poolLimit" =>
                (clients' = clients /\ sessions' = sessions)]_vars

\* C2: no operation closes the pooled session it borrowed: a closed client
\* was closed by the manager, and no session in the pool was closed by an
\* operation.
C2_OnlyManagerCloses ==
    /\ \A s \in Ids :
         ~sessions[s].sftpOpen => sessions[s].closedBy \in {"sweep", "close", "create"}
    /\ \A s \in Pooled : sessions[s].closedBy # "op"

\* C3: a GetClient call that finds a live pooled session for its key returns
\* that session and creates no connection; after a failed probe the entry is
\* evicted and the call returns a newly created session, never the probed one.
C3_ReuseOrReplace ==
    [][\A p \in Procs :
         /\ ( /\ pc[p] = "check" /\ StepOf(p)
              /\ clients[det[p].key].id # 0
              /\ GetwdOk(clients[det[p].key].id) )
            => res'[p] # "poolLimit"
         /\ (pc[p] = "probe" /\ GetwdOk(info[p]) /\ StepOf(p))
            => (res'[p] = "ok" /\ info'[p] = info[p] /\ sessions' = sessions)
         /\ (pc[p] = "evict" /\ StepOf(p))
            => clients'[det[p].key] = NoInfo
         /\ (res'[p] = "ok" /\ res[p] # "ok" /\ probed[p] # 0)
            => (info'[p] # probed[p] /\ info'[p] = Len(sessions))]_vars

\* C4: at every moment the pool holds at most MaxConnections sessions.
C4_PoolBounded == PoolLen <= config.MaxConnections

\* C5: once all GetClient calls have returned, and no probe has ever failed,
\* every open session is the one the pool holds for its key.
C5_NoOrphanSession ==
    ( /\ \A p \in Procs : pc[p] \in {"idle", "using"}
      /\ \A s \in Ids : sessions[s].closedBy # "op" /\ (sessions[s].sshOpen => sessions[s].alive) )
    => \A s \in Ids :
         sessions[s].sshOpen => clients[sessions[s].key].id = s

\* C6: a cleanup tick closes and removes exactly the pooled sessions idle for
\* longer than MaxIdleTime and keeps the others untouched.
C6_SweepExact ==
    [][CleanupTick =>
         \A k \in PoolKeys :
           LET s == clients[k].id IN
             IF clients[k].idle > config.MaxIdleTime
               THEN /\ clients'[k] = NoInfo
                    /\ ~sessions'[s].sftpOpen
                    /\ ~sessions'[s].sshOpen
               ELSE /\ clients'[k] = clients[k]
                    /\ sessions'[s] = sessions[s]]_vars

\* a sweep has closed a session and another one, idle for exactly
\* MaxIdleTime, is still pooled and open
C6_Witness ==
    /\ \E s \in Ids : sessions[s].closedBy = "sweep"
    /\ \E k \in PoolKeys :
         /\ clients[k].idle = config.MaxIdleTime
         /\ sessions[clients[k].id].sshOpen

\* C7: when Close() returns the pool is empty and every session that was
\* pooled is closed; afterwards the sweep goroutine and every keep-alive
\* goroutine terminate (a goroutine that has returned stays so, hence a
\* moment comes at which all of them are gone).
C7_CloseStopsAll ==
    /\ [][CloseFinish =>
            /\ PoolKeys' = {}
            /\ closePc' = "returned"
            /\ \A s \in Pooled :
                 ~sessions'[s].sftpOpen /\ ~sessions'[s].sshOpen]_vars
    /\ (closePc = "returned")
         ~> (cleanupPc = "stopped" /\ \A s \in Ids : sessions[s].ka # "running")

\* Close() has returned after closing a pooled session, and all goroutines
\* are gone
C7_Witness ==
    /\ closePc = "returned"
    /\ cleanupPc = "stopped"
    /\ \E s \in Ids : sessions[s].closedBy = "close"
    /\ \A s \in Ids : sessions[s].ka # "running"

\* C8: a call whose attempts all fail makes MaxRetries+1 attempts, each later
\* one after the RetryDelay sleep has run out, and returns the connect
\* error; an iteration that finds the context cancelled starts no attempt
\* and returns the context's error.
C8_RetryPolicy ==
    [][\A p \in Procs :
         /\ (res'[p] = "connectFailed" /\ res[p] # "connectFailed")
            => /\ dials[p] = det[p].MaxRetries + 1
         /\ (dials'[p] = dials[p] + 1 /\ dials[p] > 0)
            => (sleepLeft[p] = 0 /\ pc[p] = "loop")
         /\ dials'[p] = dials[p] + 1 => ~ctxDone[p]
         /\ ( /\ pc[p] = "loop" /\ StepOf(p) /\ ctxDone[p]
              /\ attempt[p] <= det[p].MaxRetries )
            => (res'[p] = "ctxErr" /\ dials'[p] = 0 /\ sessions' = sessions)]_vars

\* the default four attempts have all failed
C8_Witness ==
    \E p \in Procs :
      /\ pc[p] = "loop"
      /\ det[p].MaxRetries = DefaultMaxRetries
      /\ dials[p] = DefaultMaxRetries + 1
      /\ attempt[p] = DefaultMaxRetries + 1

\* C9: a session whose keep-alive ping has failed has been closed.
C9_FailedKeepAliveClosed ==
    \A s \in Ids : sessions[s].ka = "failed" => ~sessions[s].sshOpen

\* C10: an operation whose source path, or whose destination path (CopyTo,
\* MoveTo), fails validation returns the invalid-path error and has accessed
\* no disk and no network.
C10_InvalidPathNoIO ==
    ( /\ pathCall.op \in PathOps
      /\ \/ Validate(src, goos) # ""
         \/ pathCall.op \in {"CopyTo", "MoveTo"} /\ Validate(dst, goos) # "" )
    => (pathRes.err = "invalid" /\ pathRes.io = {})

\* a transfer routine (Copy or Move of a backend pair) was started by the
\* last call: CopyTo and MoveTo return its result, every earlier return is
\* one of the facade's own errors
TransferRan ==
    /\ pathCall.op \in {"CopyTo", "MoveTo"}
    /\ pathRes.err \in {"none", "backend"}

\* C11: CopyTo and MoveTo of a valid, existing source to a URL destination
\* fail with the unsupported-operation error, and no transfer routine is
\* started.
C11_UrlNeverDestination ==
    ( /\ pathCall.op \in {"CopyTo", "MoveTo"}
      /\ dst.isUrl
      /\ ~src.isUrl
      /\ Validate(src, goos) = ""
      /\ StatResult(src, "src", backend.srcExists, goos).err = "none" )
    => (pathRes.err = "unsupported" /\ ~TransferRan)

\* the two nodes hold the same kind of thing with the same bytes: the same
\* data, the same entries with the same data
SameContent(a, b) ==
    /\ a.kind = b.kind
    /\ a.data = b.data
    /\ { <<e.name, e.data>> : e \in a.entries } = { <<e.name, e.data>> : e \in b.entries }

\* the errors that say "the destination already exists": the facade's
\* ErrExist and the routine's "destination already exists and overwrite is
\* false"
AlreadyExistsErrors == {"ErrExist", "alreadyExists"}

\* C12: MoveTo(dest, overwrite=false) on an existing source fails with an
\* already-exists error if and only if dest existed before the call, and
\* after that failure source and destination are as they were.
C12_MoveNoOverwrite ==
    ( /\ xf.op = "Move" /\ xf.facade /\ xf.pc = "done"
      /\ ~xf.overwrite
      /\ xf.old["src"].kind # "none" )
    => /\ xf.err \in AlreadyExistsErrors <=> xf.old["dest"].kind # "none"
       /\ xf.err \in AlreadyExistsErrors => disk = xf.old

\* MoveTo without overwrite has been refused by the routine's own test (the
\* facade's dest.Exists() had failed), and once by the facade
C12_Witness ==
    /\ xf.op = "Move" /\ xf.facade /\ xf.pc = "done" /\ ~xf.overwrite
    /\ xf.err = "alreadyExists"
    /\ xf.old["dest"].kind = "dir"
    /\ disk = xf.old

\* C13: during a Move with overwrite=true on one device, the destination is
\* at every moment what it was before or the complete source, and source
\* and destination are never both missing.
C13_MoveAtomicForReaders ==
    ( /\ xf.op = "Move" /\ xf.overwrite /\ ~xf.xdev
      /\ xf.old["src"].kind # "none" )
    => /\ \/ disk["dest"] = xf.old["dest"]
          \/ SameContent(disk["dest"], xf.old["src"])
       /\ ~(disk["src"].kind = "none" /\ disk["dest"].kind = "none")

\* on one device a file has replaced the file at dest; and a fallback (the
\* rename could not replace a directory that is not empty) has run
C13_Witness ==
    /\ xf.op = "Move" /\ xf.overwrite /\ ~xf.xdev
    /\ \/ /\ xf.pc = "done" /\ xf.err = "none"
          /\ xf.old["dest"].kind = "file"
          /\ disk["dest"].data = xf.old["src"].data
       \/ /\ xf.pc = "entries" /\ xf.todo = {}
          /\ xf.old["dest"].entries # {}

\* C14: a successful Move leaves the source nonexistent and the destination
\* holding exactly what the source held.
C14_MoveResult ==
    (xf.op = "Move" /\ xf.pc = "done" /\ xf.err = "none")
    => /\ disk["src"].kind = "none"
       /\ SameContent(disk["dest"], xf.old["src"])

\* a move has replaced a file holding other content, through the copy
\* fallback
C14_Witness ==
    /\ xf.op = "Move" /\ xf.pc = "done" /\ xf.err = "none"
    /\ xf.overwrite /\ xf.xdev
    /\ xf.old["dest"].kind = "file"
    /\ xf.old["dest"].data # xf.old["src"].data
    /\ disk["dest"].data = xf.old["src"].data

ConnectErrors == {"getClient"}

\* C16: a copy of a directory asked with Recursive=false ends, for every
\* routine, with the invalid-operation error (or before it, with no
\* connection) and never changes the file system.
C16_DirNeedsRecursive ==
    (xf.op = "Copy" /\ xf.old["src"].kind = "dir" /\ ~xf.asked.Recursive)
    => /\ disk = xf.old
       /\ xf.pc = "done" => xf.err \in {"ErrInvalid"} \cup ConnectErrors

C18_PreserveAttributes ==
    (xf.op = "Copy" /\ xf.pc = "done" /\ xf.err = "none"
     /\ xf.old["src"].kind = "file")
    => IF xf.asked.PreserveAttributes
         THEN /\ disk["dest"].mode = xf.old["src"].mode
              /\ disk["dest"].mtime = xf.old["src"].mtime
         ELSE /\ disk["dest"].mode # xf.old["src"].mode
              /\ disk["dest"].mtime # xf.old["src"].mtime

\* C19: a copy from a URL has sent its GET request when it returns; an answer
\* whose status is not 2xx ends it with an HTTPError of that status and an
\* unchanged file system; and while the body is written the destination's
\* parent directory exists.
C19_UrlCopy ==
    xf.op = "UrlCopy"
    => /\ xf.pc = "done" => xf.sent
       /\ (xf.sent /\ xf.status # 0 /\ ~Is2xx(xf.status))
          => (xf.pc = "done" /\ xf.err = "HTTPError" /\ xf.code = xf.status
              /\ disk = xf.old)
       /\ xf.pc = "ubody" => ParentExists

\* C20: every error a Path operation or a transfer routine returns is a
\* pathmodels.PathError value.
C20_AllPathErrors ==
    (xf.pc = "done" /\ xf.err # "none")
    => ErrorType(xf.err) = "pathmodels.PathError"

\* -------------------------------------------------------------- path values
\* C21: a call of New on an empty, unparsable or invalid string ends with a
\* failed result (nil) handed to the caller; it never ends the process.
C21_NewReportsFailure ==
    pathCall.op = "New" => pathRes.err \in {"none", "nil"}

\* C25: Exists, IsDir and IsFile follow Stat: all three are false when Stat
\* fails, IsFile or IsDir implies Exists, and IsFile and IsDir are never
\* both true.
C25_PredicatesFollowStat ==
    \A p \in {src, dst} :
      /\ StatResult(p, "src", backend.srcExists, goos).err # "none"
           => /\ ~Exists(p, backend, goos)
              /\ ~IsDir(p, backend, goos)
              /\ ~IsFile(p, backend, goos)
      /\ IsFile(p, backend, goos) \/ IsDir(p, backend, goos)
           => Exists(p, backend, goos)
      /\ ~(IsFile(p, backend, goos) /\ IsDir(p, backend, goos))

\* C26: a SetPath on a path that Join, Parent or Copy returned never changes
\* the path string of the path it was derived from.
C26_ReturnedPathIndependent ==
    [][ pathCall'.op = "SetPath" /\ pathCall.from \in {"Join", "Parent", "Copy"}
          => src'.path = src.path ]_vars

\* C27: every Path reached through New, Join, Parent, Copy and successful
\* SetPath calls passes Validate, has the backend classification of the path
\* it was derived from, and is never both SFTP and URL.
C27_PathsStayValid ==
    /\ Validate(src, goos) = "" /\ Validate(dst, goos) = ""
    /\ dst.isSftp = src.isSftp /\ dst.isUrl = src.isUrl
    /\ ~(src.isSftp /\ src.isUrl) /\ ~(dst.isSftp /\ dst.isUrl)

\* ----------------------------------------------------------------- MakeDir
\* C22: after a MakeDir that succeeded, a second MakeDir on the same path
\* and backend succeeds when called with existsOk=true and fails with the
\* already-exists error when called with existsOk=false, for either value of
\* parents, on the local and on the SFTP backend (where the call may also
\* end with no connection); the second call changes nothing.
C22_MakeDirTwice ==
    [][ ( /\ xf.op = "MakeDir" /\ xf.pc = "idle" /\ xf.err = "none"
          /\ xf'.pc = "done" /\ xf'.variant = xf.variant )
        => /\ disk' = disk
           /\ xf'.err # "sftp-mkdir-get-client"
                => xf'.err = IF xf'.existsOk THEN "none"
                             ELSE IF xf.variant = "sftp" THEN "sftp-mkdir-exists"
                             ELSE "local-mkdir-exists" ]_vars

\* a second MakeDir(parents=true, existsOk=true) returned nil on the SFTP
\* backend for a directory that a MakeDir before it had created
C22_Witness ==
    /\ xf.op = "MakeDir" /\ xf.pc = "done" /\ xf.variant = "sftp"
    /\ xf.parents /\ xf.existsOk /\ xf.err = "none"
    /\ xf.old["dest"].kind = "dir" /\ xf.old["dest"].mtime = "now"

\* ---------------------------------------------------------- text and bytes
\* decode(encode(T)) = T in the encoding named E, a name of the index
Representable(text, enc) ==
    /\ enc \in Encodings
    /\ EncoderBytes(text, enc).ok
    /\ DecoderBytes(EncoderBytes(text, enc).bytes, enc) = text

\* a call on the SFTP backend and a call on the local one are not calls on
\* the same path
SameBackend(v, w) == (v = "sftp") = (w = "sftp")

\* C23: a ReadText(E) that follows a successful WriteText(T, E) on the same
\* path, T representable in E, returns T; a ReadBytes that follows a
\* successful WriteBytes(B) returns B.
C23_RoundTrip ==
    [][ LET c == xf.calls["g1"]
            d == xf'.calls["g1"]
        IN  ( /\ c.pc = "idle" /\ c.err = "none"
              /\ d.pc = "done" /\ d.err = "none"
              /\ SameBackend(c.variant, d.variant) )
            => /\ ( /\ c.op = "WriteText" /\ d.op = "ReadText" /\ d.enc = c.enc
                    /\ Representable(c.text, c.enc) )
                  => d.out = c.text
               /\ (c.op = "WriteBytes" /\ d.op = "ReadBytes") => d.out = c.text
      ]_vars

\* ReadText("iso-8859-1") returned "Aé" from the two bytes that a
\* WriteText had put in the place of an older file
C23_Witness ==
    /\ xf.calls["g1"].op = "ReadText" /\ xf.calls["g1"].pc = "done"
    /\ xf.calls["g1"].err = "none" /\ xf.calls["g1"].enc = "iso-8859-1"
    /\ xf.calls["g1"].text = <<65, 233>> /\ xf.calls["g1"].out = <<65, 233>>
    /\ disk["dest"].data = <<65, 233>> /\ disk["dest"].mtime = "now"

\* the errors of WriteText that come before the file is created
EncodingErrors(v) ==
    { FileErr(v, "WriteText", stage) : stage \in {"get-encoding", "encode", "validate"} }

\* C24: a WriteText of pathlocal (writetext.go) or pathsftp whose content
\* does not come back from decode(encode(content)) in the named encoding
\* ends with an encoding error (on SFTP, or with no connection) before the
\* file is created: no step of the call changes the file system.
C24_InvalidContentRefused ==
    [][ LET c == xf.calls["g1"]
            d == xf'.calls["g1"]
        IN  ( /\ c.pc = "idle" /\ d.pc # "idle" /\ d.op = "WriteText"
              /\ d.variant # "part_013"
              /\ ~Representable(d.text, d.enc) )
            => /\ d.pc = "done"
               /\ d.err \in EncodingErrors(d.variant)
                            \cup {FileErr("sftp", "WriteText", "get-client")}
               /\ disk' = disk
      ]_vars

\* WriteText("A\xff", "utf-16le") of writetext.go ended with the validation
\* error, and the file that was at the path holds what it held
C24_Witness ==
    /\ xf.calls["g1"].op = "WriteText" /\ xf.calls["g1"].pc = "done"
    /\ xf.calls["g1"].variant = "writetext.go"
    /\ xf.calls["g1"].text = <<65, InvalidByte>>
    /\ xf.calls["g1"].enc = "utf-16le"
    /\ xf.calls["g1"].err = FileErr("writetext.go", "WriteText", "validate")
    /\ disk["dest"] = File(<<3>>, "0644", "t0")

\* C28: when the concurrent WriteText calls on one path have all returned
\* without an error, the file holds the bytes of exactly one of them, never
\* a mixture of the bytes of several.
C28_LastWriterWins ==
    ( \A g \in Goroutines :
        /\ xf.calls[g].op = "WriteText"
        /\ xf.calls[g].pc = "done"
        /\ xf.calls[g].err = "none" )
    => \E g \in Goroutines : disk["dest"].data = xf.calls[g].buf

BuffersWritten ==
    IF xf.op = "Move" THEN Len(disk[TempDest(xf.overwrite)].data)
    ELSE Len(disk["dest"].data)
TransferSize ==
    IF xf.op = "UrlCopy" THEN Len(Body) ELSE Len(disk["src"].data)

\* C30: in the buffer loop of a single-file transfer, ProgressFunc has been
\* called once for every buffer written so far, the i-th call with
\* (total, i buffers): done grows with every call and, at the end of the
\* loop, is the number of bytes copied.
C30_ProgressAfterEachWrite ==
    xf.pc \in BufferLoops
    => /\ Len(xf.progress) = BuffersWritten
       /\ \A i \in 1..Len(xf.progress) :
            /\ xf.progress[i].done = i
            /\ xf.progress[i].total = TransferSize

\* ------------------------------------------------------------------- C31
\* C31: a local-to-local copy with FollowSymlinks = false that returns nil
\* has recreated every symbolic link of the source as a link to the same
\* target: the source itself when it is a link, and every entry of a copied
\* directory that is one.
C31_SymlinksRecreated ==
    (/\ xf.op = "Copy" /\ xf.pc = "done" /\ xf.err = "none"
     /\ xf.variant \in LocalVariants
     /\ ~xf.asked.FollowSymlinks)
    => /\ xf.old["src"].kind = "symlink"
            => /\ disk["dest"].kind = "symlink"
               /\ disk["dest"].target = xf.old["src"].target
       /\ \A e \in xf.old["src"].entries :
            e.target # ""
            => \E f \in disk["dest"].entries :
                  f.name = e.name /\ f.target = e.target

\* ------------------------------------------------------------------- C32
\* C32: a file copy between two paths of one SFTP server never ends with the
\* error of its server-side fast path (a failure of the fast path, the
\* missing command session included, leads to the streaming copy), and a
\* copy whose server-side cp succeeded has streamed nothing.
C32_FastPathFallsBack ==
    (/\ xf.op = "Copy" /\ xf.pc = "done"
     /\ xf.variant = "sftpsftp" /\ xf.sameServer)
    => /\ xf.err # "getSession"
       /\ xf.fast = "ok" => (xf.progress = << >> /\ xf.err = "none")

\* ------------------------------------------------------------------- C33
\* C33: for every source size (0 and the unknown size -1 included) and every
\* number of CPUs, the buffer size GetOptimalBufferSize computes lies between
\* 4 KiB and 1 MiB inclusive.
C33_BufferSizeInRange ==
    (xf.op = "GetOptimalBufferSize" /\ xf.pc = "done")
    => (BaseSize <= xf.bufferSize /\ xf.bufferSize <= MaxSize)

\* ------------------------------------------------------------------- C34
\* C34: a step of the idle sweep never closes a session that an operation
\* still in progress has borrowed: the session of a caller that has not
\* returned stays open across every sweep, however long the operation lasts.
C34_SweepSparesBorrowed ==
    [][CleanupTick =>
         \A p \in Procs :
           (pc[p] = "using" /\ sessions[info[p]].sftpOpen)
           => sessions'[info[p]].sftpOpen]_vars

\* ------------------------------------------------------------------- C35
\* the errors MoveTo returns from the copy phase of a copy-then-delete move:
\* those of moveFile and moveDir, and the wrapped error of Copy
CopyPhaseErrors ==
    EntryErrors \cup {"mkdir", "readdir", "ctx", "move-copy"}

\* the steps that delete the source, or rename it away
SourceSteps == {"rename", "removeSrc", "mrename", "mrmsrc"}

\* C35: in every move the source changes only in the step that removes (or
\* renames) it, and in a copy-then-delete move that step is taken only after
\* the copy phase has ended without error; hence a MoveTo that returns an
\* error of the copy phase leaves the source as it was.
C35_SourceKeptUntilCopied ==
    /\ [][disk'["src"] # disk["src"]
            => (xf.pc \in SourceSteps /\ xf.err = "none")]_vars
    /\ [](( /\ xf.op \in {"Move", "SftpMove"} /\ xf.pc = "done"
            /\ xf.err \in CopyPhaseErrors)
          => disk["src"] = xf.old["src"])

\* a move between an SFTP path and another one has returned the error of its
\* copy phase after the copy had written a part of the destination, and the
\* source is as it was
C35_Witness ==
    /\ xf.op = "SftpMove" /\ xf.pc = "done" /\ xf.err = "move-copy"
    /\ disk["dest"] # xf.old["dest"]
    /\ disk["dest"].kind = "file" /\ Len(disk["dest"].data) = 1
    /\ disk["src"] = xf.old["src"] /\ disk["src"].kind = "file"

\* ------------------------------------------------------------------- C36
\* C36: a MoveTo with overwrite = true that returns an error has left a
\* destination that existed before the call as it was, on every pair of
\* backends.
C36_FailedMoveKeepsDest ==
    (/\ xf.op \in {"Move", "SftpMove"} /\ xf.pc = "done" /\ xf.facade
     /\ xf.overwrite /\ xf.err # "none"
     /\ xf.old["dest"].kind # "none")
    => disk["dest"] = xf.old["dest"]

\* ------------------------------------------------------------------- C37
\* C37: GetClient hands a session only to a caller whose connection details,
\* the password included, are those the session was authenticated with: a
\* call with the user, host and port of a pooled session and another
\* password does not return that session.
C37_SessionNeedsPassword ==
    [][\A p \in Procs :
         (pc[p] # "using" /\ pc'[p] = "using")
         => sessions'[info'[p]].password = det[p].Password]_vars

\* ------------------------------------------------------------------- C38
\* C38: when a local-to-local MoveTo has returned, with or without an error,
\* a file that existed under the name dest + ".tmp" before the call (a name
\* that is neither the source, the destination nor below them) exists with
\* the content it had.
C38_MoveKeepsOtherFiles ==
    (xf.op = "Move" /\ xf.pc = "done" /\ xf.facade)
    => disk["tmp"] = xf.old["tmp"]

\* ------------------------------------------------------------------- C39
\* C39: once Close() has returned the manager stays closed: in every later
\* state the pool is empty, no GetClient call having created and stored a
\* session.
C39_ClosedStaysClosed ==
    closePc = "returned" => PoolKeys = {}

\* ------------------------------------------------------------------- C40
\* C40: goroutines that call MakeDir(parents = false, existsOk = true) at
\* the same time on one local path that did not exist never get an
\* already-exists error: a call that finds the directory made by another
\* one returns nil.
C40_ConcurrentMakeDir ==
    \A g \in Goroutines :
      LET c == xf.calls[g] IN
        (/\ c.op = "MakeDir" /\ c.pc = "done"
         /\ \A h \in Goroutines :
              xf.calls[h].op = "MakeDir"
              => (~xf.calls[h].parents /\ xf.calls[h].existsOk))
        => c.err \notin {"local-mkdir-exists", "local-mkdir-eexist"}

====
